---- MODULE Spec2Model ----
(***************************************************************************)
(* Strava bot: the Express handler GET /atualizar-clube of index.js, with   *)
(* the two earlier versions of the same script that differ in the parts    *)
(* modelled here: part_000 (the club feed saved as a per-day snapshot) and *)
(* part_002 (getValidAthleteAccessToken without the fallback to the stored *)
(* athlete id).  The database tables, the provider (token endpoint, club   *)
(* feed, athlete feed) and the clock are the environment.                  *)
(*                                                                         *)
(* Time is in seconds since 2026-02-01T00:00:00Z.  Distances are in metres *)
(* (distance_km holds metres/1000 exactly).  Floating-point rounding error *)
(* of the JavaScript arithmetic is not modelled.                           *)
(***************************************************************************)
EXTENDS Integers, Sequences, FiniteSets, TLC

VARIABLES
    variant,      \* which version of the script runs: "index", "part_000", "part_002"
    masterToken,  \* STRAVA.masterRefreshToken (NULL when not configured)
    envMissing,   \* TRUE when a required environment variable is missing
    feedKind,     \* what the provider has to list: "edits", "types" or "paces"
    dbFaulty,     \* TRUE when statements and connections of the database may fail
    now,          \* the clock: the latest instant the service read
    athletesTbl,  \* table strava_athletes: a sequence of rows
    activities,   \* table strava_activities: a sequence of rows
    issued,       \* provider: number of token responses issued so far
    requests,     \* provider: the requests received during the current invocation
    feed,         \* provider: the list it serves during the current fetch call
    served,       \* provider: the pages answered during the current fetch call
    pc,           \* position of the running handler ("idle" when none runs)
    route,        \* the handler that runs: "none", "update", "start", "callback"
    conn,         \* the handler's connection: "none", "open", "closed"
    opened,       \* connections the current invocation has opened
    loc,          \* the handler's local variables
    resp,         \* the HTTP response of the latest invocation
    last,         \* the latest upsertActivity call: its row, and what it found
    runs,         \* invocations of /atualizar-clube started so far
    oauthRuns,    \* invocations of /oauth/start and /oauth/callback started so far
    hash,         \* the hash variants' loop: activities left, pseudoId, i, hashId, rows
    race,         \* two overlapping invocations: the lists both fetched, their loops
    refreshing    \* two overlapping invocations in the athlete pass: where each is,
                  \* and the provider's grants in the order it issued them

vars == <<variant, masterToken, envMissing, feedKind, dbFaulty, now, athletesTbl,
          activities, issued, requests, feed, served, pc, route, conn, opened, loc,
          resp, last, runs, oauthRuns, hash, race, refreshing>>

\* ------------------------------------------------------------------ bounds

\* Invocations of /atualizar-clube in one behaviour.
MaxUpdates == 2
\* Invocations of /oauth/callback and of /oauth/start in one behaviour.
MaxCallbacks == 2
MaxStarts == 1
\* per_page of both feeds (the code asks for 50 and 200).
PerPage == 2
\* maxPages of the club feed (the code asks for 3).
ClubMaxPages == 2
\* maxPages of the athlete feed (the code asks for 5).
AthleteMaxPages == 2

\* ------------------------------------------------------------ constants

NULL == "NULL"
\* SQL NULL in a numeric column.
NullInt == 0 - 1

\* DATA_INICIO, default "2026-02-01T00:00:00-03:00" (03:00:00Z of day 0).
DATA_INICIO == 10800
\* The 60 seconds of margin of getValidAthleteAccessToken.
RefreshMargin == 60
\* Seconds in a day, and the 3 hours todayDateBR takes off.
DaySeconds == 24 * 3600
BROffset == 3 * 3600
\* Lifetime of an access token the provider issues (6 hours).
TokenLife == 6 * 3600

RunTypes == {"Run", "VirtualRun", "TrailRun"}

\* ------------------------------------------------------------- helpers

Pad2(n) == IF n < 10 THEN "0" \o ToString(n) ELSE ToString(n)

\* A date string of the provider is modelled by its parts: kind "none" (the
\* field is missing), "iso" (YYYY-MM-DDTHH:MM:SSZ, day counted from
\* 2026-02-01) or "bad" (a string Date cannot parse).
NoDate == [kind |-> "none", day |-> 0, sec |-> 0]
IsoDate(d, s) == [kind |-> "iso", day |-> d, sec |-> s]
BadDate == [kind |-> "bad", day |-> 0, sec |-> 0]

DayStr(day) ==
    CASE day = 0 - 1 -> "2026-01-31"
      [] day = 0 -> "2026-02-01"
      [] day = 1 -> "2026-02-02"
      [] day = 2 -> "2026-02-03"
      [] OTHER -> "2026-02-04"

TimeStr(sec) ==
    Pad2(sec \div 3600) \o ":" \o Pad2((sec % 3600) \div 60) \o ":" \o Pad2(sec % 60)

\* The string the provider sent.
DateString(d) ==
    IF d.kind = "iso" THEN DayStr(d.day) \o "T" \o TimeStr(d.sec) \o "Z" ELSE "n/a"

\* new Date(s).getTime() / 1000, for a string Date can parse.
DateSeconds(d) == d.day * DaySeconds + d.sec
\* Number.isFinite(new Date(s).getTime())
DateIsFinite(d) == d.kind = "iso"

toMySQLDatetime(d) ==
    IF d.kind = "none" THEN NULL
    ELSE IF d.kind = "iso" THEN DayStr(d.day) \o " " \o TimeStr(d.sec)
    ELSE "n/a"

toDateOnly(d) ==
    IF d.kind = "none" THEN NULL
    ELSE IF d.kind = "iso" THEN DayStr(d.day)
    ELSE "n/a"

\* todayDateBR without the three hours taken off.
todayDateBR_NoOffset(t) == DayStr(t \div DaySeconds)

\* todayDateBR of part_000: the UTC date of the clock minus three hours.
todayDateBR(t) == DayStr((t - BROffset) \div DaySeconds)

\* (metres / 1000).toFixed(2)
ToFixed2(metres) ==
    LET c == (metres + 5) \div 10
    IN  ToString(c \div 100) \o "." \o Pad2(c % 100)

\* calcularPace with Math.floor for Math.round.
calcularPace_Truncates(segundos, metres) ==
    IF segundos = 0 \/ metres <= 0 THEN "0:00"
    ELSE LET mins == (segundos * 1000) \div (metres * 60)
             num  == segundos * 1000 - mins * 60 * metres
         IN  ToString(mins) \o ":" \o Pad2(num \div metres)

\* calcularPace(segundos, km) with km = metres / 1000.
calcularPace(segundos, metres) ==
    IF segundos = 0 \/ metres <= 0 THEN "0:00"
    ELSE LET mins == (segundos * 1000) \div (metres * 60)
             \* paceSeconds % 60, as the fraction num / metres
             num  == segundos * 1000 - mins * 60 * metres
             secs == (2 * num + metres) \div (2 * metres)
         IN  ToString(mins) \o ":" \o Pad2(secs)

\* -------------------------------------------------------------- tables

\* A provider activity.  id = 0, athId = 0, type = "", name = "", distance = 0,
\* moving_time = 0 stand for a missing field (JavaScript treats all as falsy).
Act(id, type, sdl, sd, distance, moving, name, elev, athId) ==
    [id |-> id, type |-> type, start_date_local |-> sdl, start_date |-> sd,
     distance |-> distance, moving_time |-> moving, name |-> name,
     total_elevation_gain |-> elev, athId |-> athId]

NoAct == Act(0, "", NoDate, NoDate, 0, 0, "", 0, 0)

\* act.start_date_local || act.start_date || null
DataRaw(act) ==
    IF act.start_date_local.kind # "none" THEN act.start_date_local ELSE act.start_date

NoRow == [unique_key |-> NULL, activity_id |-> NULL, athlete_id |-> NULL,
          source |-> NULL, activity_name |-> NULL, activity_date |-> NULL,
          activity_date_only |-> NULL, snapshot_date |-> NULL, collected_at |-> NULL,
          distance_km |-> 0, moving_time_seconds |-> 0, elevation_meters |-> 0,
          pace_display |-> NULL, athlete_name |-> NULL, full_name |-> NULL,
          athlete_photo |-> NULL]

KeyIndex(tbl, key) == {i \in DOMAIN tbl : tbl[i].unique_key = key}

\* The update list without activity_name.
UpdateActivity_KeepsName(old, row) ==
    [old EXCEPT !.activity_date = row.activity_date,
                !.activity_date_only = row.activity_date_only,
                !.distance_km = row.distance_km,
                !.moving_time_seconds = row.moving_time_seconds,
                !.elevation_meters = row.elevation_meters,
                !.pace_display = row.pace_display,
                !.athlete_name = row.athlete_name,
                !.full_name = row.full_name,
                !.athlete_photo = row.athlete_photo]

\* INSERT ... ON DUPLICATE KEY UPDATE of index.js: the columns it assigns.
\* An update list that assigns every column of the call.
UpdateActivity_AllColumns(old, row) == row

UpdateActivity(old, row) ==
    [old EXCEPT !.activity_name = row.activity_name,
                !.activity_date = row.activity_date,
                !.activity_date_only = row.activity_date_only,
                !.distance_km = row.distance_km,
                !.moving_time_seconds = row.moving_time_seconds,
                !.elevation_meters = row.elevation_meters,
                !.pace_display = row.pace_display,
                !.athlete_name = row.athlete_name,
                !.full_name = row.full_name,
                !.athlete_photo = row.athlete_photo]

\* The same statement in part_000, which also assigns the snapshot columns.
UpdateActivitySnapshot(old, row) ==
    [UpdateActivity(old, row) EXCEPT !.snapshot_date = row.snapshot_date,
                                     !.collected_at = row.collected_at]

\* A plain INSERT into a table without the unique index on unique_key.
upsertActivity_AlwaysInsert(tbl, row) == Append(tbl, row)

\* upsertActivity: the table after the statement.
upsertActivity(tbl, row) ==
    IF KeyIndex(tbl, row.unique_key) = {}
    THEN Append(tbl, row)
    ELSE [i \in DOMAIN tbl |->
            IF tbl[i].unique_key = row.unique_key
            THEN IF variant = "part_000" THEN UpdateActivitySnapshot(tbl[i], row)
                 ELSE UpdateActivity(tbl[i], row)
            ELSE tbl[i]]

\* result.affectedRows: 1 for an insert, 2 for an update that changed the row,
\* and 1 for an update that changed nothing (mysql2 connects with FOUND_ROWS
\* among its default flags, and DB sets no flags of its own).
AffectedRows(tbl, row) ==
    IF KeyIndex(tbl, row.unique_key) = {} THEN 1
    ELSE IF upsertActivity(tbl, row) = tbl THEN 1
    ELSE 2

\* A plain INSERT into a table without a key on athlete_id.
upsertAthleteToken_AlwaysInsert(tbl, a) == Append(tbl, a)

\* upsertAthleteToken: INSERT ... ON DUPLICATE KEY UPDATE on athlete_id.
upsertAthleteToken(tbl, a) ==
    IF \E i \in DOMAIN tbl : tbl[i].athlete_id = a.athlete_id
    THEN [i \in DOMAIN tbl |->
            IF tbl[i].athlete_id = a.athlete_id
            THEN [tbl[i] EXCEPT !.full_name = a.full_name,
                                !.access_token = a.access_token,
                                !.refresh_token = a.refresh_token,
                                !.expires_at = a.expires_at]
            ELSE tbl[i]]
    ELSE Append(tbl, a)

Credential(id, name, access, refresh, expires) ==
    [athlete_id |-> id, full_name |-> name, access_token |-> access,
     refresh_token |-> refresh, expires_at |-> expires]

NoCredential == Credential(0, NULL, NULL, NULL, NullInt)

\* ------------------------------------------------------- normalization

IdString(n) == IF n = 0 THEN NULL ELSE ToString(n)

\* The first 40 characters of a name: (act.name || "").slice(0, 40).
LongName == "Sunday long run around the lake with the whole club"
Slice40(name) ==
    IF Len(name) <= 40 THEN name
    ELSE IF name = LongName THEN "Sunday long run around the lake with the"
    ELSE name

\* The type filter of the club pass: TRUE when the activity is skipped.
ClubTypeSkips(act) ==
    IF variant = "part_002"
    THEN act.type # "" /\ act.type # "Run"
    ELSE act.type # "" /\ act.type \notin RunTypes

\* The athlete pass with the filter of the club pass, which lets an activity
\* with no type through.
AthleteTypeSkips_LikeClub(act) == act.type # "" /\ act.type \notin RunTypes

\* The type filter of the athlete pass.
AthleteTypeSkips(act) ==
    IF variant = "part_002" THEN act.type # "Run" ELSE act.type \notin RunTypes

\* The comparison with DATA_INICIO turned around.
BeforeCutoff_Reversed(d) == DateIsFinite(d) /\ DateSeconds(d) > DATA_INICIO

\* A cutoff that also drops the activity dated at DATA_INICIO.
BeforeCutoff_Inclusive(d) == DateIsFinite(d) /\ DateSeconds(d) <= DATA_INICIO

\* Number.isFinite(dt.getTime()) && dt < DATA_INICIO
BeforeCutoff(d) == DateIsFinite(d) /\ DateSeconds(d) < DATA_INICIO

\* A key that also holds the activity's name.
ClubKey_WithName(act) == "club|" \o ToString(act.id) \o "|" \o act.name

\* The dedup key of the club pass of index.js and part_002.
ClubKey(act) ==
    IF act.id # 0
    THEN "club|" \o ToString(act.id)
    ELSE "club|" \o (IF act.athId # 0 THEN ToString(act.athId) ELSE "x")
         \o "|" \o DateString(DataRaw(act)) \o "|" \o ToFixed2(act.distance)
         \o "|" \o ToString(act.moving_time)

\* The dedup key of the club pass of part_000.
SnapshotKey(act, snapshotDate) ==
    "club_snapshot|" \o snapshotDate
    \o "|" \o (IF act.athId # 0 THEN ToString(act.athId) ELSE "x")
    \o "|" \o ToFixed2(act.distance) \o "|" \o ToString(act.moving_time)
    \o "|" \o Slice40(act.name)

\* athleteId of the athlete pass: the activity's athlete id, else the row's.
AthleteIdOf(act, athlete) ==
    IF act.athId # 0 THEN ToString(act.athId) ELSE ToString(athlete.athlete_id)

\* An athlete key under the club pass's prefix.
AthleteKey_ClubPrefix(act, athlete) ==
    "club|" \o AthleteIdOf(act, athlete) \o "|" \o ToString(act.id)

\* The dedup key of the athlete pass (all three versions).
AthleteKey(act, athlete) ==
    IF act.id # 0
    THEN "athlete|" \o AthleteIdOf(act, athlete) \o "|" \o ToString(act.id)
    ELSE "athlete|" \o AthleteIdOf(act, athlete) \o "|" \o DateString(DataRaw(act))
         \o "|" \o ToFixed2(act.distance) \o "|" \o ToString(act.moving_time)

AthleteLabel(idString) ==
    IF idString = NULL THEN "athlete_desconhecido" ELSE "athlete_" \o idString

\* The row the club pass hands to upsertActivity.
ClubRow(act, snapshotDate, collectedAt) ==
    LET snap == variant = "part_000"
    IN [unique_key |-> IF snap THEN SnapshotKey(act, snapshotDate) ELSE ClubKey(act),
        activity_id |-> IdString(act.id),
        athlete_id |-> IdString(act.athId),
        source |-> IF snap THEN "club_snapshot" ELSE "club",
        activity_name |-> act.name,
        activity_date |-> toMySQLDatetime(DataRaw(act)),
        activity_date_only |-> toDateOnly(DataRaw(act)),
        snapshot_date |-> IF snap THEN snapshotDate ELSE NULL,
        collected_at |-> IF snap THEN collectedAt ELSE NULL,
        distance_km |-> act.distance,
        moving_time_seconds |-> act.moving_time,
        elevation_meters |-> act.total_elevation_gain,
        pace_display |-> calcularPace(act.moving_time, act.distance),
        athlete_name |-> AthleteLabel(IdString(act.athId)),
        full_name |-> AthleteLabel(IdString(act.athId)),
        athlete_photo |-> ""]

\* The row the athlete pass hands to upsertActivity.
AthleteRow(act, athlete, collectedAt) ==
    LET snap == variant = "part_000"
        shown == IF athlete.full_name \in {NULL, ""}
                 THEN "athlete_" \o AthleteIdOf(act, athlete)
                 ELSE athlete.full_name
    IN [unique_key |-> AthleteKey(act, athlete),
        activity_id |-> IdString(act.id),
        athlete_id |-> AthleteIdOf(act, athlete),
        source |-> IF snap THEN "athlete_full" ELSE "athlete",
        activity_name |-> act.name,
        activity_date |-> toMySQLDatetime(DataRaw(act)),
        activity_date_only |-> toDateOnly(DataRaw(act)),
        snapshot_date |-> NULL,
        collected_at |-> IF snap THEN collectedAt ELSE NULL,
        distance_km |-> act.distance,
        moving_time_seconds |-> act.moving_time,
        elevation_meters |-> act.total_elevation_gain,
        pace_display |-> calcularPace(act.moving_time, act.distance),
        athlete_name |-> shown,
        full_name |-> shown,
        athlete_photo |-> ""]

\* The club loop of index.js in every version: no date, no row.
ClubSkips_UndatedSkipped(act) ==
    \/ ClubTypeSkips(act)
    \/ DataRaw(act).kind = "none"
    \/ BeforeCutoff(DataRaw(act))

\* TRUE when the club pass skips the activity before the upsert.
ClubSkips(act) ==
    \/ ClubTypeSkips(act)
    \/ variant # "part_000" /\ DataRaw(act).kind = "none"
    \/ variant # "part_000" /\ BeforeCutoff(DataRaw(act))

\* TRUE when the athlete pass skips the activity before the upsert.
AthleteSkips(act) ==
    \/ AthleteTypeSkips(act)
    \/ DataRaw(act).kind = "none"
    \/ BeforeCutoff(DataRaw(act))

\* --------------------------------------------------------- environment

Athletes == {1, 2}

FirstName(id) == IF id = 1 THEN "Ana" ELSE "Bia"

\* Instants of the clock: 2026-02-02T02:00:00Z (still 2026-02-01 in Brazil) and
\* 03:00:00Z of the same day (2026-02-02 in Brazil).
T0 == DaySeconds + 2 * 3600
Instants == {T0, T0 + 3600}

\* A response of the token endpoint.  athId = 0: the response has no athlete
\* object (the provider sends none with a refresh_token grant).
TokenResponse(n, t, athId) ==
    [access_token |-> "at" \o ToString(n), refresh_token |-> "rt" \o ToString(n),
     expires_at |-> t + TokenLife, athId |-> athId,
     firstname |-> IF athId = 0 THEN "" ELSE FirstName(athId)]

NoTokenResponse ==
    [access_token |-> NULL, refresh_token |-> NULL, expires_at |-> NullInt,
     athId |-> 0, firstname |-> ""]

\* Credential tables the service may find when it starts: an empty one, and
\* tables whose rows were stored before (NULL columns included).
NoCredentials == <<>>
\* Athlete 1 has no access token and an expiry far ahead; athlete 2 has a token
\* that expires exactly 60 seconds after T0.
TwoAthletes ==
    << Credential(1, "Ana Seed", NULL, "rtA", T0 + TokenLife),
       Credential(2, NULL, "atB", "rtB", T0 + RefreshMargin) >>
\* An access token and no expiry.
OneAthlete == << Credential(1, "", "atA", "rtA", NullInt) >>

\* The configurations the service starts in: the version that runs, the master
\* refresh token, whether an environment variable is missing, the credentials.
Config(v, master, missing, seed) ==
    [variant |-> v, masterToken |-> master, envMissing |-> missing, seed |-> seed]
Configs ==
    { Config("index", "rtMaster", FALSE, TwoAthletes),
      Config("index", NULL, FALSE, TwoAthletes),
      Config("index", "rtMaster", FALSE, OneAthlete),
      Config("index", NULL, FALSE, NoCredentials),
      Config("index", "rtMaster", TRUE, NoCredentials),
      Config("index", "rtMaster", TRUE, OneAthlete),
      Config("part_000", "rtMaster", FALSE, TwoAthletes),
      Config("part_002", NULL, FALSE, TwoAthletes) }

\* The worlds the service runs in: a configuration, what the provider has to
\* list, and whether the database may fail.  Every configuration runs with the
\* "edits" feed and a sound database; one of them also with the "types" feed,
\* and with a database that may fail.
World(c, kind, faulty) == [config |-> c, feedKind |-> kind, dbFaulty |-> faulty]
Worlds ==
    {World(c, "edits", FALSE) : c \in Configs}
    \cup { World(Config("index", "rtMaster", FALSE, OneAthlete), "types", FALSE),
           World(Config("index", "rtMaster", FALSE, OneAthlete), "edits", TRUE),
           World(Config("index", "rtMaster", FALSE, NoCredentials), "paces", FALSE) }

AfterCutoff == IsoDate(1, 27000)
AfterCutoffLater == IsoDate(1, 30600)
\* 2026-02-01T01:00:00Z: two hours before DATA_INICIO.
EarlierThanCutoff == IsoDate(0, 3600)

\* The club feed: activities as the provider lists them, one of them also in
\* a later, edited state (same id, other name, distance, time and date).
ClubTimeline ==
    << Act(11, "Run", AfterCutoff, NoDate, 10000, 3600, "Morning Run", 50, 1),
       Act(12, "Run", EarlierThanCutoff, NoDate, 5000, 1500, "January Run", 10, 2),
       Act(11, "Run", AfterCutoffLater, NoDate, 10400, 3700, "Renamed Run", 55, 1),
       Act(11, "Run", AfterCutoff, NoDate, 10000, 3600, "Morning Run", 50, 1) >>

\* The feed of the athlete who owns the token.
AthleteTimeline(owner) ==
    << Act(21, "Run", AfterCutoff, NoDate, 10000, 3600, "Morning Run", 50, 0),
       Act(22, "Run", NoDate, EarlierThanCutoff, 5000, 1500, "January Run", 10, owner),
       Act(21, "Run", NoDate, AfterCutoffLater, 10400, 3700, "Renamed Run", 55, owner),
       Act(21, "Run", AfterCutoff, NoDate, 10000, 3600, "Morning Run", 50, 0) >>

\* The club feed of the "types" world: a ride, an activity with no type, no
\* id and no athlete, a virtual run and a trail run.
ClubTypesTimeline ==
    << Act(31, "Ride", AfterCutoff, NoDate, 20000, 3000, "Lunch Ride", 80, 1),
       Act(0, "", AfterCutoff, NoDate, 7000, 2400, "Untitled", 0, 0),
       Act(33, "VirtualRun", AfterCutoff, NoDate, 8000, 2700, "Treadmill", 0, 1),
       Act(34, "TrailRun", AfterCutoffLater, NoDate, 12345, 5000, LongName, 300, 2) >>

\* The athlete feed of the "types" world.
AthleteTypesTimeline(owner) ==
    << Act(41, "Ride", AfterCutoff, NoDate, 20000, 3000, "Lunch Ride", 80, owner),
       Act(42, "", AfterCutoff, NoDate, 7000, 2400, "Untitled", 0, owner),
       Act(43, "VirtualRun", AfterCutoff, NoDate, 8000, 2700, "Treadmill", 0, owner),
       Act(0, "TrailRun", AfterCutoffLater, NoDate, 12345, 5000, LongName, 300, 0) >>

\* The instant of DATA_INICIO, and the second before it.
AtCutoff == IsoDate(0, DATA_INICIO)
SecondBeforeCutoff == IsoDate(0, DATA_INICIO - 1)

\* The club feed of the "dates" world: a run with no date and no id (the
\* capped feed), a run dated exactly at the cutoff, a run whose date Date
\* cannot parse, and a run dated one second before the cutoff.
ClubDatesTimeline ==
    << Act(0, "Run", NoDate, NoDate, 7000, 2400, "Capped Run", 20, 1),
       Act(51, "Run", AtCutoff, NoDate, 5000, 1500, "Cutoff Run", 10, 1),
       Act(52, "Run", BadDate, NoDate, 6000, 1800, "Odd Date Run", 0, 1),
       Act(53, "Run", SecondBeforeCutoff, NoDate, 8000, 2500, "Late January Run", 5, 2) >>

\* The athlete feed of the "dates" world, with start_date for start_date_local;
\* its Cutoff Run is the activity the club feed also lists.
AthleteDatesTimeline(owner) ==
    << Act(60, "Run", NoDate, NoDate, 7000, 2400, "Undated Run", 20, owner),
       Act(51, "Run", NoDate, AtCutoff, 5000, 1500, "Cutoff Run", 10, owner),
       Act(62, "Run", NoDate, BadDate, 6000, 1800, "Odd Date Run", 0, owner),
       Act(63, "Run", NoDate, SecondBeforeCutoff, 8000, 2500, "Late January Run", 5, owner) >>

\* The lists the provider may serve: the first rows of a timeline (none, some,
\* all), so that a later call may see more of it, or less.
Windows(timeline) == {SubSeq(timeline, 1, j) : j \in 0..Len(timeline)}

\* Page p of a list, perPage rows a page.
PageOf(list, p, perPage) ==
    SubSeq(list, (p - 1) * perPage + 1,
           IF p * perPage < Len(list) THEN p * perPage ELSE Len(list))

RECURSIVE Flatten(_)
Flatten(pages) ==
    IF pages = <<>> THEN <<>> ELSE Head(pages).batch \o Flatten(Tail(pages))

\* ------------------------------------------------------- handler state

InitLoc ==
    [accessToken |-> NULL, page |-> 0, all |-> <<>>, acts |-> <<>>,
     athletes |-> <<>>, athlete |-> NoCredential, refreshed |-> NoTokenResponse,
     upsertsTotal |-> 0, upsertsClub |-> 0, upsertsAthletes |-> 0, semData |-> 0,
     snapshotDate |-> NULL, collectedAt |-> NULL, nAthletes |-> 0,
     keptClub |-> 0, keptAthletes |-> 0, code |-> NULL]

NoResp == [status |-> 0, ok |-> FALSE, error |-> NULL, club_enabled |-> FALSE,
           athletes_authorized |-> 0, upserts_total |-> 0, upserts_club |-> 0,
           upserts_athletes |-> 0, sent |-> 0]

NoLast == [row |-> NoRow, act |-> NoAct, existed |-> FALSE, before |-> NoRow,
           affectedRows |-> 0, set |-> FALSE]

\* The access token the provider returns for the master refresh token.
MasterAccessToken == "atMaster"

Request(kind, auth, page, ok) == [kind |-> kind, auth |-> auth, page |-> page, ok |-> ok]

\* A 32-bit integer as its two 16-bit halves (two's complement pattern).
Int32(hi, lo) == [hi |-> hi, lo |-> lo]

\* The state of the hash loop outside the hash variants.
NoHash == [acts |-> <<>>, act |-> NoAct, pseudoId |-> <<>>, i |-> 0,
           hashId |-> Int32(0, 0), rows |-> <<>>, novos |-> 0]

\* The invocations of /atualizar-clube that overlap.
Invocations == {1, 2}

\* No invocations overlap.
\* No invocation is in getValidAthleteAccessToken.
NoRefresh ==
    [grants |-> <<>>,
     inv |-> [w \in Invocations |->
                [pc |-> "done", athletes |-> <<>>, athlete |-> NoCredential,
                 refreshed |-> NoTokenResponse, accessToken |-> NULL]]]

NoRace == [club |-> <<>>, athlete |-> <<>>, overlapped |-> FALSE,
           loops |-> [w \in Invocations |-> [pass |-> "done", acts |-> <<>>]]]

Init ==
    /\ \E w \in Worlds :
          /\ variant = w.config.variant
          /\ masterToken = w.config.masterToken
          /\ envMissing = w.config.envMissing
          /\ athletesTbl = w.config.seed
          /\ feedKind = w.feedKind
          /\ dbFaulty = w.dbFaulty
    /\ now = T0
    /\ activities = <<>>
    /\ issued = 0
    /\ requests = <<>>
    /\ feed = <<>>
    /\ served = <<>>
    /\ pc = "idle"
    /\ route = "none"
    /\ conn = "none"
    /\ opened = 0
    /\ loc = InitLoc
    /\ resp = NoResp
    /\ last = NoLast
    /\ runs = 0
    /\ oauthRuns = [start |-> 0, callback |-> 0]
    /\ hash = NoHash
    /\ race = NoRace
    /\ refreshing = NoRefresh

config == <<variant, masterToken, envMissing, feedKind, dbFaulty>>

\* A reading of the clock: any instant not earlier than the latest one read.
ClockReadings == {t \in Instants : t >= now}

\* The handler has answered: its locals are out of scope.
Answered(r) ==
    /\ resp' = [r EXCEPT !.sent = resp.sent + 1]
    /\ pc' = "finally"
    /\ loc' = InitLoc
    /\ feed' = <<>>
    /\ served' = <<>>
    /\ last' = NoLast

\* A catch block that answers the success summary.
Throw_AsSuccess(msg) == Answered([NoResp EXCEPT !.status = 200, !.ok = TRUE])

\* A catch block that also reports the counters reached so far.
Throw_WithCounts(msg) ==
    Answered([NoResp EXCEPT !.status = 500, !.error = msg,
                            !.upserts_total = loc.upsertsTotal,
                            !.upserts_club = loc.upsertsClub,
                            !.upserts_athletes = loc.upsertsAthletes])

\* An exception reaches the handler's catch block: it answers 500 with
\* { ok: false, error }.
Throw(msg) == Answered([NoResp EXCEPT !.status = 500, !.error = msg])

\* A handler that returns without ending its connection.
Finally_NoEnd ==
    /\ pc = "finally"
    /\ pc' = "idle"
    /\ route' = "none"
    /\ requests' = <<>>
    /\ resp' = NoResp
    /\ UNCHANGED <<config, now, athletesTbl, activities, issued, feed, served, loc,
                   last, runs, oauthRuns, hash, race, refreshing, opened, conn>>

\* The handler returns: finally { if (connection) await connection.end(); }
\* (/oauth/start has no connection and no finally block).
Finally ==
    /\ pc = "finally"
    /\ conn' = IF conn = "open" THEN "closed" ELSE conn
    /\ pc' = "idle"
    /\ route' = "none"
    /\ requests' = <<>>
    /\ resp' = NoResp
    /\ UNCHANGED <<config, now, athletesTbl, activities, issued, feed, served, loc,
                   last, runs, oauthRuns, hash, race, refreshing, opened>>

\* ------------------------------------------------- GET /atualizar-clube

\* A handler that enters the club pass whatever the configuration.
FirstStep_AlwaysClub == "club_token"

\* if (STRAVA.masterRefreshToken) { club pass }: where the handler goes after
\* it connected.
FirstStep == IF masterToken # NULL THEN "club_token" ELSE "select_athletes"

\* A handler that connects before it looks at the configuration.
AtualizarClubeStart_ConnectsFirst ==
    /\ pc = "idle"
    /\ runs < MaxUpdates
    /\ runs' = runs + 1
    /\ UNCHANGED <<oauthRuns, hash, race, refreshing>>
    /\ route' = "update"
    /\ requests' = <<>>
    /\ \/ /\ envMissing
          /\ Throw("Faltando ENV vars")
          /\ conn' = "open"
          /\ opened' = 1
          /\ UNCHANGED now
       \/ /\ ~envMissing
          /\ dbFaulty
          /\ Throw("connect failed")
          /\ conn' = "none"
          /\ opened' = 0
          /\ UNCHANGED now
       \/ /\ ~envMissing
          /\ conn' = "open"
          /\ opened' = 1
          /\ resp' = NoResp
          /\ pc' = FirstStep
          /\ UNCHANGED <<feed, served, last>>
          /\ IF variant = "part_000"
             THEN \E t \in ClockReadings :
                     /\ now' = t
                     /\ loc' = [InitLoc EXCEPT
                                  !.snapshotDate = todayDateBR(t),
                                  !.collectedAt = DayStr(t \div DaySeconds) \o " "
                                                  \o TimeStr(t % DaySeconds)]
             ELSE /\ loc' = InitLoc
                  /\ UNCHANGED now
    /\ UNCHANGED <<config, athletesTbl, activities, issued>>

\* The handler starts: assertEnv, dbConn, the counters; part_000 also takes
\* snapshotDate and collectedAt from the clock.  When assertEnv or dbConn
\* throws, connection stays undefined.
AtualizarClubeStart ==
    /\ pc = "idle"
    /\ runs < MaxUpdates
    /\ runs' = runs + 1
    /\ UNCHANGED <<oauthRuns, hash, race, refreshing>>
    /\ route' = "update"
    /\ requests' = <<>>
    /\ \/ /\ envMissing
          /\ Throw("Faltando ENV vars")
          /\ conn' = "none"
          /\ opened' = 0
          /\ UNCHANGED now
       \/ /\ ~envMissing
          /\ dbFaulty
          /\ Throw("connect failed")
          /\ conn' = "none"
          /\ opened' = 0
          /\ UNCHANGED now
       \/ /\ ~envMissing
          /\ conn' = "open"
          /\ opened' = 1
          /\ resp' = NoResp
          /\ pc' = FirstStep
          /\ UNCHANGED <<feed, served, last>>
          /\ IF variant = "part_000"
             THEN \E t \in ClockReadings :
                     /\ now' = t
                     /\ loc' = [InitLoc EXCEPT
                                  !.snapshotDate = todayDateBR(t),
                                  !.collectedAt = DayStr(t \div DaySeconds) \o " "
                                                  \o TimeStr(t % DaySeconds)]
             ELSE /\ loc' = InitLoc
                  /\ UNCHANGED now
    /\ UNCHANGED <<config, athletesTbl, activities, issued>>

\* refreshAccessToken(STRAVA.masterRefreshToken)
ClubRefreshToken ==
    /\ pc = "club_token"
    /\ \/ /\ requests' = Append(requests, Request("token", masterToken, 0, TRUE))
          /\ loc' = [loc EXCEPT !.accessToken = MasterAccessToken, !.page = 1]
          /\ pc' = "club_fetch"
          /\ UNCHANGED <<resp, feed, served, last>>
       \/ /\ requests' = Append(requests, Request("token", masterToken, 0, FALSE))
          /\ Throw("token request failed")
    /\ UNCHANGED <<config, now, athletesTbl, activities, issued, route, conn, opened, runs, oauthRuns, hash, race, refreshing>>

\* The loop without "if (batch.length < perPage) break".
FetchNext_NoEarlyStop(all, batchLen, perPage, maxPages, fetchPc, loopPc) ==
    IF loc.page + 1 > maxPages
    THEN /\ loc' = [loc EXCEPT !.acts = all, !.all = <<>>, !.page = 0]
         /\ pc' = loopPc
    ELSE /\ loc' = [loc EXCEPT !.all = all, !.page = @ + 1]
         /\ pc' = fetchPc

\* After all.push(...batch): "if (batch.length < perPage) break", else page++
\* and the test page <= maxPages; when the loop ends the function returns all.
FetchNext(all, batchLen, perPage, maxPages, fetchPc, loopPc) ==
    IF batchLen < perPage \/ loc.page + 1 > maxPages
    THEN /\ loc' = [loc EXCEPT !.acts = all, !.all = <<>>, !.page = 0]
         /\ pc' = loopPc
    ELSE /\ loc' = [loc EXCEPT !.all = all, !.page = @ + 1]
         /\ pc' = fetchPc

\* One turn of the loop of fetchClubActivities / fetchAthleteActivities: the
\* request for page loc.page, and what follows from the answer.
FetchPage(kind, lists, perPage, maxPages, fetchPc, loopPc) ==
    /\ pc = fetchPc
    /\ loc.page <= maxPages
    /\ \/ \E list \in lists :
            /\ loc.page = 1 \/ list = feed
            /\ LET batch == PageOf(list, loc.page, perPage)
                   all   == loc.all \o batch
               IN /\ feed' = list
                  /\ requests' = Append(requests,
                                        Request(kind, loc.accessToken, loc.page, TRUE))
                  /\ served' = Append(served, [page |-> loc.page, batch |-> batch])
                  /\ FetchNext(all, Len(batch), perPage, maxPages, fetchPc, loopPc)
            /\ UNCHANGED <<resp, last>>
       \/ /\ requests' = Append(requests, Request(kind, loc.accessToken, loc.page, FALSE))
          /\ Throw("feed request failed")
    /\ UNCHANGED <<config, now, athletesTbl, activities, issued, route, conn, opened, runs, oauthRuns, hash, race, refreshing>>

\* The club feed of the "paces" world: one run with no id, of any of these
\* distances (metres) and moving times (seconds; 0: the field is missing).
PaceDistances == {0, 1, 1000, 3333, 5000, 10000, 10400, 42195}
PaceTimes == {0, 1, 59, 1500, 3599, 3600, 3700}
PaceFeeds ==
    {<<Act(0, "Run", AfterCutoff, NoDate, d, t, "Morning Run", 0, 1)>> :
        d \in PaceDistances, t \in PaceTimes}

\* The lists the club feed may answer a call with.
ClubFeeds ==
    IF feedKind = "paces" THEN PaceFeeds
    ELSE Windows(IF feedKind = "types" THEN ClubTypesTimeline
                 ELSE IF feedKind = "dates" THEN ClubDatesTimeline
                 ELSE ClubTimeline)

\* The lists the feed of an athlete may answer a call with.
AthleteFeeds(owner) ==
    Windows(IF feedKind = "types" THEN AthleteTypesTimeline(owner)
            ELSE IF feedKind = "dates" THEN AthleteDatesTimeline(owner)
            ELSE AthleteTimeline(owner))

fetchClubActivities ==
    FetchPage("club", ClubFeeds, PerPage, ClubMaxPages, "club_fetch", "club_loop")

\* Counters that count the pass twice and the total once.
Counted_Twice(l, counter, kept, n) ==
    [l EXCEPT ![counter] = IF n > 0 THEN @ + 2 ELSE @,
              !.upsertsTotal = IF n > 0 THEN @ + 1 ELSE @,
              ![kept] = @ + 1]

\* The counters after an upsert: "if (result.affectedRows > 0) { ...++;
\* upsertsTotal++; }".  kept counts the activities that reached the upsert.
Counted(l, counter, kept, n) ==
    [l EXCEPT ![counter] = IF n > 0 THEN @ + 1 ELSE @,
              !.upsertsTotal = IF n > 0 THEN @ + 1 ELSE @,
              ![kept] = @ + 1]

\* The upsert of one activity and the counters that follow it; when the
\* statement fails the error leaves the loop.
UpsertStep(act, row, counter, kept, sem) ==
    \/ LET n == AffectedRows(activities, row)
           found == KeyIndex(activities, row.unique_key)
       IN  /\ activities' = upsertActivity(activities, row)
           /\ last' = [row |-> row, act |-> act, existed |-> found # {},
                       before |-> IF found = {} THEN NoRow
                                  ELSE activities[CHOOSE i \in found : TRUE],
                       affectedRows |-> n, set |-> TRUE]
           /\ loc' = Counted([loc EXCEPT !.acts = Tail(@), !.semData = @ + sem],
                             counter, kept, n)
           /\ pc' = pc
           /\ served' = <<>>
           /\ feed' = <<>>
           /\ UNCHANGED resp
    \/ /\ dbFaulty
       /\ Throw("upsert failed")
       /\ UNCHANGED activities

\* One turn of "for (const act of clubActs)", or the end of the loop.
ClubActivity ==
    /\ pc = "club_loop"
    /\ IF loc.acts = <<>>
       THEN /\ pc' = "select_athletes"
            /\ last' = NoLast
            /\ served' = <<>>
            /\ feed' = <<>>
            /\ UNCHANGED <<activities, loc, resp>>
       ELSE LET act == Head(loc.acts)
            IN IF ClubSkips(act)
               THEN /\ loc' = [loc EXCEPT
                                 !.acts = Tail(@),
                                 !.semData = IF ~ClubTypeSkips(act)
                                                /\ DataRaw(act).kind = "none"
                                             THEN @ + 1 ELSE @]
                    /\ pc' = "club_loop"
                    /\ last' = NoLast
                    /\ served' = <<>>
                    /\ feed' = <<>>
                    /\ UNCHANGED <<activities, resp>>
               ELSE UpsertStep(act, ClubRow(act, loc.snapshotDate, loc.collectedAt),
                               "upsertsClub", "keptClub",
                               IF DataRaw(act).kind = "none" THEN 1 ELSE 0)
    /\ UNCHANGED <<config, now, athletesTbl, issued, requests, route, conn, opened, runs, oauthRuns, hash, race, refreshing>>

\* getAuthorizedAthletes: SELECT ... FROM strava_athletes
getAuthorizedAthletes ==
    /\ pc = "select_athletes"
    /\ \/ /\ loc' = [loc EXCEPT !.athletes = athletesTbl,
                                 !.nAthletes = Len(athletesTbl)]
          /\ pc' = "next_athlete"
          /\ UNCHANGED <<feed, served, resp, last>>
       \/ /\ dbFaulty
          /\ Throw("select failed")
    /\ UNCHANGED <<config, now, athletesTbl, activities, issued, requests, route,
                   conn, opened, runs, oauthRuns, hash, race, refreshing>>

\* The test with "<" for "<=".
NeedsRefresh_Strict(row, t) ==
    \/ row.access_token \in {NULL, ""}
    \/ (IF row.expires_at = NullInt THEN 0 ELSE row.expires_at) < t + RefreshMargin

\* !athleteRow.access_token || Number(athleteRow.expires_at || 0) <= now + 60
NeedsRefresh(row, t) ==
    \/ row.access_token \in {NULL, ""}
    \/ (IF row.expires_at = NullInt THEN 0 ELSE row.expires_at) <= t + RefreshMargin

\* The access token getValidAthleteAccessToken returns without a refresh.
StoredToken(row) == row.access_token

\* The head of "for (const athlete of athletes)" with the first half of
\* getValidAthleteAccessToken: the expiry test and, when it asks for one, the
\* refresh request.  With no athlete left the handler sends its summary.
getValidAthleteAccessToken ==
    /\ pc = "next_athlete"
    /\ IF loc.athletes = <<>>
       THEN /\ Answered([NoResp EXCEPT
                            !.status = 200, !.ok = TRUE,
                            !.club_enabled = masterToken # NULL,
                            !.athletes_authorized = loc.nAthletes,
                            !.upserts_total = loc.upsertsTotal,
                            !.upserts_club = loc.upsertsClub,
                            !.upserts_athletes = loc.upsertsAthletes])
            /\ UNCHANGED <<issued, requests, now>>
       ELSE \E t \in ClockReadings :
              LET row == Head(loc.athletes)
              IN /\ now' = t
                 /\ IF NeedsRefresh(row, t)
                    THEN \/ \E athId \in {0, row.athlete_id} :
                              /\ requests' = Append(requests,
                                               Request("token", row.refresh_token, 0, TRUE))
                              /\ issued' = issued + 1
                              /\ loc' = [loc EXCEPT
                                           !.athlete = row, !.athletes = Tail(@),
                                           !.refreshed = TokenResponse(issued + 1, t, athId)]
                              /\ pc' = "save_token"
                              /\ UNCHANGED <<resp, feed, served, last>>
                         \/ /\ requests' = Append(requests,
                                               Request("token", row.refresh_token, 0, FALSE))
                            /\ Throw("token request failed")
                            /\ UNCHANGED issued
                    ELSE /\ loc' = [loc EXCEPT !.athlete = row, !.athletes = Tail(@),
                                               !.accessToken = StoredToken(row),
                                               !.page = 1]
                         /\ pc' = "athlete_fetch"
                         /\ UNCHANGED <<issued, requests, resp, feed, served, last>>
    /\ UNCHANGED <<config, athletesTbl, activities, route, conn, opened, runs, oauthRuns, hash, race, refreshing>>

\* The credential record getValidAthleteAccessToken writes after a refresh.
RefreshedCredential(refreshed, row) ==
    IF variant = "part_002"
    THEN Credential(refreshed.athId, refreshed.firstname, refreshed.access_token,
                    refreshed.refresh_token, refreshed.expires_at)
    ELSE Credential(IF refreshed.athId # 0 THEN refreshed.athId ELSE row.athlete_id,
                    IF refreshed.firstname # "" THEN refreshed.firstname
                    ELSE IF row.full_name \notin {NULL, ""} THEN row.full_name
                    ELSE "athlete_" \o ToString(row.athlete_id),
                    refreshed.access_token, refreshed.refresh_token,
                    refreshed.expires_at)

\* The access token getValidAthleteAccessToken returns after a refresh.
RefreshedToken(refreshed, row) == refreshed.access_token

\* The second half of getValidAthleteAccessToken: upsertAthleteToken, then the
\* refreshed access token is returned.  In part_002 athlete_id is undefined
\* when the response has no athlete object, and execute() rejects an
\* undefined bind parameter: the statement is not run and the error is thrown.
SaveRefreshedToken ==
    /\ pc = "save_token"
    /\ LET a == RefreshedCredential(loc.refreshed, loc.athlete)
       IN IF a.athlete_id = 0
          THEN /\ Throw("Bind parameters must not contain undefined")
               /\ UNCHANGED athletesTbl
          ELSE \/ /\ athletesTbl' = upsertAthleteToken(athletesTbl, a)
                  /\ loc' = [loc EXCEPT
                               !.accessToken = RefreshedToken(loc.refreshed, loc.athlete),
                               !.refreshed = NoTokenResponse, !.page = 1]
                  /\ pc' = "athlete_fetch"
                  /\ UNCHANGED <<resp, feed, served, last>>
               \/ /\ dbFaulty
                  /\ Throw("upsert failed")
                  /\ UNCHANGED athletesTbl
    /\ UNCHANGED <<config, now, activities, issued, requests, route, conn, opened, runs, oauthRuns, hash, race, refreshing>>

fetchAthleteActivities ==
    FetchPage("athlete", AthleteFeeds(loc.athlete.athlete_id), PerPage,
              AthleteMaxPages, "athlete_fetch", "athlete_loop")

\* One turn of "for (const act of acts)", or the end of the loop.
AthleteActivity ==
    /\ pc = "athlete_loop"
    /\ IF loc.acts = <<>>
       THEN /\ pc' = "next_athlete"
            /\ loc' = [loc EXCEPT !.athlete = NoCredential, !.accessToken = NULL]
            /\ last' = NoLast
            /\ served' = <<>>
            /\ feed' = <<>>
            /\ UNCHANGED <<activities, resp>>
       ELSE LET act == Head(loc.acts)
            IN IF AthleteSkips(act)
               THEN /\ loc' = [loc EXCEPT !.acts = Tail(@)]
                    /\ pc' = "athlete_loop"
                    /\ last' = NoLast
                    /\ served' = <<>>
                    /\ feed' = <<>>
                    /\ UNCHANGED <<activities, resp>>
               ELSE UpsertStep(act, AthleteRow(act, loc.athlete, loc.collectedAt),
                               "upsertsAthletes", "keptAthletes", 0)
    /\ UNCHANGED <<config, now, athletesTbl, issued, requests, route, conn, opened, runs, oauthRuns, hash, race, refreshing>>

\* ----------------------------------------------------- GET /oauth/start

\* The whole handler: assertEnv, then the redirect to the provider's
\* authorization page; catch (e) answers 500 with e.message.
OAuthStart ==
    /\ pc = "idle"
    /\ oauthRuns.start < MaxStarts
    /\ oauthRuns' = [oauthRuns EXCEPT !.start = @ + 1]
    /\ UNCHANGED <<hash, race, refreshing>>
    /\ route' = "start"
    /\ requests' = <<>>
    /\ conn' = "none"
    /\ opened' = 0
    /\ IF envMissing
       THEN Answered([NoResp EXCEPT !.status = 500, !.error = "Faltando ENV vars"])
       ELSE Answered([NoResp EXCEPT !.status = 302, !.ok = TRUE])
    /\ UNCHANGED <<config, now, athletesTbl, activities, issued, runs>>

\* -------------------------------------------------- GET /oauth/callback

\* The authorization codes a callback may carry (NULL: no code).
Codes == {NULL, "code1"}

\* An exception that leaves the handler without an answer.
CallbackThrow_Escapes(msg) ==
    /\ resp' = NoResp
    /\ pc' = "finally"
    /\ loc' = InitLoc
    /\ feed' = <<>>
    /\ served' = <<>>
    /\ last' = NoLast

\* catch (e) of /oauth/callback: 500 with "Erro no callback OAuth: " + message.
CallbackThrow(msg) ==
    Answered([NoResp EXCEPT !.status = 500,
                            !.error = "Erro no callback OAuth: " \o msg])

\* The handler starts: assertEnv, then the test of req.query.code.
OAuthCallback ==
    /\ pc = "idle"
    /\ oauthRuns.callback < MaxCallbacks
    /\ oauthRuns' = [oauthRuns EXCEPT !.callback = @ + 1]
    /\ UNCHANGED <<hash, race, refreshing>>
    /\ route' = "callback"
    /\ requests' = <<>>
    /\ conn' = "none"
    /\ opened' = 0
    /\ \E code \in Codes :
          IF envMissing THEN CallbackThrow("Faltando ENV vars")
          ELSE IF code = NULL
          THEN Answered([NoResp EXCEPT !.status = 400,
                                       !.error = "Faltou code no callback."])
          ELSE /\ loc' = [InitLoc EXCEPT !.code = code]
               /\ pc' = "cb_exchange"
               /\ resp' = NoResp
               /\ UNCHANGED <<feed, served, last>>
    /\ UNCHANGED <<config, now, athletesTbl, activities, issued, runs>>

\* exchangeCodeForTokens(code), then the test of data.athlete?.id.
OAuthExchange ==
    /\ pc = "cb_exchange"
    /\ \/ \E t \in ClockReadings, athId \in {0} \cup Athletes :
            /\ requests' = Append(requests, Request("exchange", loc.code, 0, TRUE))
            /\ issued' = issued + 1
            /\ now' = t
            /\ IF athId = 0
               THEN Answered([NoResp EXCEPT
                                !.status = 500,
                                !.error = "Nao veio athlete.id no retorno do OAuth."])
               ELSE /\ loc' = [loc EXCEPT
                                 !.refreshed = TokenResponse(issued + 1, t, athId)]
                    /\ pc' = "cb_connect"
                    /\ UNCHANGED <<resp, feed, served, last>>
       \/ /\ requests' = Append(requests, Request("exchange", loc.code, 0, FALSE))
          /\ CallbackThrow("token request failed")
          /\ UNCHANGED <<issued, now>>
    /\ UNCHANGED <<config, athletesTbl, activities, route, conn, opened, runs, oauthRuns, hash, race, refreshing>>

\* connection = await dbConn()
OAuthConnect ==
    /\ pc = "cb_connect"
    /\ \/ /\ conn' = "open"
          /\ opened' = opened + 1
          /\ pc' = "cb_save"
          /\ UNCHANGED <<loc, resp, feed, served, last>>
       \/ /\ dbFaulty
          /\ CallbackThrow("connect failed")
          /\ UNCHANGED <<conn, opened>>
    /\ UNCHANGED <<config, now, athletesTbl, activities, issued, requests, route, runs,
                   oauthRuns, hash, race, refreshing>>

\* A record with the two tokens swapped.
CallbackCredential_Swapped(data) ==
    Credential(data.athId, data.firstname,
               data.refresh_token, data.access_token, data.expires_at)

\* The credential record /oauth/callback writes.
CallbackCredential(data) ==
    Credential(data.athId,
               IF data.firstname # "" THEN data.firstname
               ELSE "athlete_" \o ToString(data.athId),
               data.access_token, data.refresh_token, data.expires_at)

\* upsertAthleteToken, then the page "Autorizacao OK".
OAuthSave ==
    /\ pc = "cb_save"
    /\ \/ /\ athletesTbl' = upsertAthleteToken(athletesTbl, CallbackCredential(loc.refreshed))
          /\ Answered([NoResp EXCEPT !.status = 200, !.ok = TRUE])
       \/ /\ dbFaulty
          /\ CallbackThrow("upsert failed")
          /\ UNCHANGED athletesTbl
    /\ UNCHANGED <<config, now, activities, issued, requests, route, conn, opened, runs,
                   oauthRuns, hash, race, refreshing>>

Next ==
    \/ AtualizarClubeStart
    \/ ClubRefreshToken
    \/ fetchClubActivities
    \/ ClubActivity
    \/ getAuthorizedAthletes
    \/ getValidAthleteAccessToken
    \/ SaveRefreshedToken
    \/ fetchAthleteActivities
    \/ AthleteActivity
    \/ Finally

Spec == Init /\ [][Next]_vars

\* The worlds of the "dates" feed: the club-snapshot version and index.js,
\* each with the master token and one stored credential.
DateWorlds ==
    { World(Config("part_000", "rtMaster", FALSE, OneAthlete), "dates", FALSE),
      World(Config("index", "rtMaster", FALSE, OneAthlete), "dates", FALSE) }

InitDates ==
    /\ \E w \in DateWorlds :
          /\ variant = w.config.variant
          /\ masterToken = w.config.masterToken
          /\ envMissing = w.config.envMissing
          /\ athletesTbl = w.config.seed
          /\ feedKind = w.feedKind
          /\ dbFaulty = w.dbFaulty
    /\ now = T0
    /\ activities = <<>>
    /\ issued = 0
    /\ requests = <<>>
    /\ feed = <<>>
    /\ served = <<>>
    /\ pc = "idle"
    /\ route = "none"
    /\ conn = "none"
    /\ opened = 0
    /\ loc = InitLoc
    /\ resp = NoResp
    /\ last = NoLast
    /\ runs = 0
    /\ oauthRuns = [start |-> 0, callback |-> 0]
    /\ hash = NoHash
    /\ race = NoRace
    /\ refreshing = NoRefresh

SpecDates == InitDates /\ [][Next]_vars

\* The three routes together, for a service that starts with at most one
\* stored credential and the "edits" feed.
InitOAuth ==
    /\ Init
    /\ variant = "index"
    /\ feedKind = "edits"
    /\ Len(athletesTbl) <= 1

\* Invocations of /atualizar-clube in one behaviour of the three routes.
MaxUpdatesOAuth == 1

NextOAuth ==
    \/ AtualizarClubeStart /\ runs < MaxUpdatesOAuth
    \/ ClubRefreshToken
    \/ fetchClubActivities
    \/ ClubActivity
    \/ getAuthorizedAthletes
    \/ getValidAthleteAccessToken
    \/ SaveRefreshedToken
    \/ fetchAthleteActivities
    \/ AthleteActivity
    \/ Finally
    \/ OAuthStart
    \/ OAuthCallback
    \/ OAuthExchange
    \/ OAuthConnect
    \/ OAuthSave

SpecOAuth == InitOAuth /\ [][NextOAuth]_vars

\* ------------------------------------------------ upsertActivity alone

\* The rows upsertActivity is called with: two keys, each with any
\* activity_id, athlete_id, source and name.
UpsertRows ==
    {[NoRow EXCEPT !.unique_key = k, !.activity_id = i, !.athlete_id = a,
                   !.source = src, !.activity_name = n,
                   !.pace_display = "6:00", !.athlete_name = AthleteLabel(a),
                   !.full_name = AthleteLabel(a), !.athlete_photo = ""] :
        k \in {"club|11", "athlete|1|21"}, i \in {NULL, "11"}, a \in {"1", "2"},
        src \in {"club", "athlete"}, n \in {"Morning Run", "Renamed Run"}}

\* An open connection of index.js and an empty table.
InitUpsert ==
    /\ variant = "index"
    /\ masterToken = "rtMaster"
    /\ envMissing = FALSE
    /\ athletesTbl = OneAthlete
    /\ feedKind = "edits"
    /\ dbFaulty = FALSE
    /\ now = T0
    /\ activities = <<>>
    /\ issued = 0
    /\ requests = <<>>
    /\ feed = <<>>
    /\ served = <<>>
    /\ pc = "upsert"
    /\ route = "update"
    /\ conn = "open"
    /\ opened = 1
    /\ loc = InitLoc
    /\ resp = NoResp
    /\ last = NoLast
    /\ runs = 1
    /\ oauthRuns = [start |-> 0, callback |-> 0]
    /\ hash = NoHash
    /\ race = NoRace
    /\ refreshing = NoRefresh

\* A call of upsertActivity(connection, row).
UpsertCall ==
    /\ pc = "upsert"
    /\ \E row \in UpsertRows :
          LET found == KeyIndex(activities, row.unique_key)
          IN /\ last' = [row |-> row, act |-> NoAct, existed |-> found # {},
                         before |-> IF found = {} THEN NoRow
                                    ELSE activities[CHOOSE i \in found : TRUE],
                         affectedRows |-> AffectedRows(activities, row), set |-> TRUE]
             /\ activities' = upsertActivity(activities, row)
    /\ UNCHANGED <<config, now, athletesTbl, issued, requests, feed, served, pc, route,
                   conn, opened, loc, resp, runs, oauthRuns, hash, race, refreshing>>

NextUpsert == UpsertCall

SpecUpsert == InitUpsert /\ [][NextUpsert]_vars

\* -------------------------- two overlapping invocations of /atualizar-clube

\* The credential row both invocations selected.
RaceAthlete == OneAthlete[1]

\* TRUE when the loop of the pass skips the activity.
RaceSkips(act, pass) ==
    IF pass = "club" THEN ClubSkips(act) ELSE AthleteSkips(act)

\* A row that carries the invocation that wrote it.
RaceRow_PerInvocation(w, act, pass) ==
    [(IF pass = "club" THEN ClubRow(act, NULL, NULL)
      ELSE AthleteRow(act, RaceAthlete, NULL))
     EXCEPT !.activity_name = @ \o "#" \o ToString(w)]

\* The row invocation w hands to upsertActivity in the loop of the pass.
RaceRow(w, act, pass) ==
    IF pass = "club" THEN ClubRow(act, NULL, NULL)
    ELSE AthleteRow(act, RaceAthlete, NULL)

\* The table a loop over acts leaves, run alone on tbl.
RECURSIVE RunPass(_, _, _)
RunPass(tbl, acts, pass) ==
    IF acts = <<>> THEN tbl
    ELSE RunPass(IF RaceSkips(Head(acts), pass) THEN tbl
                 ELSE upsertActivity(tbl, RaceRow(1, Head(acts), pass)),
                 Tail(acts), pass)

\* The table a single invocation leaves: the club pass, then the athlete pass.
SingleInvocation ==
    RunPass(RunPass(<<>>, race.club, "club"), race.athlete, "athlete")

\* Invocation w is past its first turn and not finished.
Underway(w) ==
    /\ race.loops[w].pass # "done"
    /\ race.loops[w] # [pass |-> "club", acts |-> race.club]

\* Both invocations have connected and fetched the same club list and the same
\* list of the one authorized athlete; each is at the head of its club loop.
InitRace ==
    /\ variant = "index"
    /\ masterToken = "rtMaster"
    /\ envMissing = FALSE
    /\ athletesTbl = OneAthlete
    /\ feedKind \in {"edits", "types"}
    /\ dbFaulty = FALSE
    /\ now = T0
    /\ activities = <<>>
    /\ issued = 0
    /\ requests = <<>>
    /\ feed = <<>>
    /\ served = <<>>
    /\ pc = "race"
    /\ route = "update"
    /\ conn = "open"
    /\ opened = 1
    /\ loc = InitLoc
    /\ resp = NoResp
    /\ last = NoLast
    /\ runs = 2
    /\ oauthRuns = [start |-> 0, callback |-> 0]
    /\ hash = NoHash
    /\ refreshing = NoRefresh
    /\ \E club \in ClubFeeds, athlete \in AthleteFeeds(RaceAthlete.athlete_id) :
          race = [club |-> club, athlete |-> athlete, overlapped |-> FALSE,
                  loops |-> [w \in Invocations |-> [pass |-> "club", acts |-> club]]]

\* One turn of a loop of invocation w: the upsert is one statement, which the
\* database runs atomically against the unique key.
RaceTurn(w, pass, next, nextActs) ==
    /\ pc = "race"
    /\ race.loops[w].pass = pass
    /\ LET acts == race.loops[w].acts
           other == CHOOSE v \in Invocations : v # w
       IN IF acts = <<>>
          THEN /\ race' = [race EXCEPT !.loops[w] = [pass |-> next, acts |-> nextActs]]
               /\ UNCHANGED activities
          ELSE /\ race' = [race EXCEPT !.loops[w].acts = Tail(acts),
                                       !.overlapped = @ \/ Underway(other)]
               /\ activities' = IF RaceSkips(Head(acts), pass) THEN activities
                                ELSE upsertActivity(activities, RaceRow(w, Head(acts), pass))
    /\ UNCHANGED <<config, now, athletesTbl, issued, requests, feed, served, pc, route,
                   conn, opened, loc, resp, last, runs, oauthRuns, hash, refreshing>>

\* for (const act of clubActs) of invocation w
RaceClubActivity(w) == RaceTurn(w, "club", "athlete", race.athlete)

\* for (const act of acts) of invocation w
RaceAthleteActivity(w) == RaceTurn(w, "athlete", "done", <<>>)

NextRace ==
    \/ \E w \in Invocations : RaceClubActivity(w)
    \/ \E w \in Invocations : RaceAthleteActivity(w)

SpecRace == InitRace /\ [][NextRace]_vars

\* ------------------- two overlapping invocations refreshing athlete tokens

\* The table the athlete loop over acts leaves, run on tbl for one athlete.
RECURSIVE AthletePass(_, _, _)
AthletePass(tbl, acts, athlete) ==
    IF acts = <<>> THEN tbl
    ELSE AthletePass(IF AthleteSkips(Head(acts)) THEN tbl
                     ELSE upsertActivity(tbl, AthleteRow(Head(acts), athlete, NULL)),
                     Tail(acts), athlete)

\* Invocation w has left the handler.
RefreshDone(w) ==
    [pc |-> "done", athletes |-> <<>>, athlete |-> NoCredential,
     refreshed |-> NoTokenResponse, accessToken |-> NULL]

\* Two requests of /atualizar-clube without a master token have both connected;
\* each is about to read the credential table.
InitRefresh ==
    /\ variant = "index"
    /\ masterToken = NULL
    /\ envMissing = FALSE
    /\ athletesTbl \in {OneAthlete, TwoAthletes}
    /\ feedKind = "edits"
    /\ dbFaulty = FALSE
    /\ now = T0
    /\ activities = <<>>
    /\ issued = 0
    /\ requests = <<>>
    /\ feed = <<>>
    /\ served = <<>>
    /\ pc = "refresh"
    /\ route = "update"
    /\ conn = "open"
    /\ opened = 2
    /\ loc = InitLoc
    /\ resp = NoResp
    /\ last = NoLast
    /\ runs = 2
    /\ oauthRuns = [start |-> 0, callback |-> 0]
    /\ hash = NoHash
    /\ race = NoRace
    /\ refreshing = [grants |-> <<>>,
                  inv |-> [w \in Invocations |->
                             [RefreshDone(w) EXCEPT !.pc = "select_athletes"]]]

\* What a step of one invocation's athlete pass leaves alone.
RefreshFrame ==
    UNCHANGED <<config, feed, served, pc, route, conn, opened, loc, resp, last, runs,
                oauthRuns, hash, race>>

\* const athletes = await getAuthorizedAthletes(connection), in invocation w
RefreshSelect(w) ==
    /\ pc = "refresh"
    /\ refreshing.inv[w].pc = "select_athletes"
    /\ refreshing' = [refreshing EXCEPT !.inv[w].pc = "next_athlete",
                                  !.inv[w].athletes = athletesTbl]
    /\ UNCHANGED <<now, athletesTbl, activities, issued, requests>>
    /\ RefreshFrame

\* The head of "for (const athlete of athletes)" in invocation w: the expiry
\* test on the row it selected and, when stale, the refresh request, which the
\* provider grants (the response may carry no athlete object) or refuses.
RefreshToken(w) ==
    /\ pc = "refresh"
    /\ refreshing.inv[w].pc = "next_athlete"
    /\ LET me == refreshing.inv[w]
       IN IF me.athletes = <<>>
          THEN /\ refreshing' = [refreshing EXCEPT !.inv[w] = RefreshDone(w)]
               /\ UNCHANGED <<now, issued, requests>>
          ELSE \E t \in ClockReadings :
                 LET row == Head(me.athletes)
                 IN /\ now' = t
                    /\ IF NeedsRefresh(row, t)
                       THEN \/ \E athId \in {0, row.athlete_id} :
                                 /\ requests' = Append(requests,
                                          Request("token", row.refresh_token, 0, TRUE))
                                 /\ issued' = issued + 1
                                 /\ refreshing' =
                                      [refreshing EXCEPT
                                         !.grants = Append(@, [w |-> w,
                                                      athlete_id |-> row.athlete_id]),
                                         !.inv[w] = [me EXCEPT
                                            !.pc = "save_token",
                                            !.athlete = row, !.athletes = Tail(@),
                                            !.refreshed =
                                                TokenResponse(issued + 1, t, athId)]]
                            \/ /\ requests' = Append(requests,
                                          Request("token", row.refresh_token, 0, FALSE))
                               /\ refreshing' = [refreshing EXCEPT !.inv[w] = RefreshDone(w)]
                               /\ UNCHANGED issued
                       ELSE /\ refreshing' = [refreshing EXCEPT !.inv[w] = [me EXCEPT
                                              !.pc = "athlete_fetch",
                                              !.athlete = row, !.athletes = Tail(@),
                                              !.accessToken = StoredToken(row)]]
                            /\ UNCHANGED <<issued, requests>>
    /\ UNCHANGED <<athletesTbl, activities>>
    /\ RefreshFrame

\* await upsertAthleteToken(connection, {...}) of invocation w: one statement.
RefreshSave(w) ==
    /\ pc = "refresh"
    /\ refreshing.inv[w].pc = "save_token"
    /\ LET me == refreshing.inv[w]
       IN /\ athletesTbl' = upsertAthleteToken(athletesTbl,
                                RefreshedCredential(me.refreshed, me.athlete))
          /\ refreshing' = [refreshing EXCEPT !.inv[w] = [me EXCEPT
                            !.pc = "athlete_fetch",
                            !.accessToken = RefreshedToken(me.refreshed, me.athlete),
                            !.refreshed = NoTokenResponse]]
    /\ UNCHANGED <<now, activities, issued, requests>>
    /\ RefreshFrame

\* fetchAthleteActivities and the loop over its result in invocation w, or a
\* feed request that fails and ends the invocation.
RefreshActivities(w) ==
    /\ pc = "refresh"
    /\ refreshing.inv[w].pc = "athlete_fetch"
    /\ LET me == refreshing.inv[w]
       IN \/ /\ \E acts \in AthleteFeeds(me.athlete.athlete_id) :
                    activities' = AthletePass(activities, acts, me.athlete)
             /\ requests' = Append(requests, Request("athlete", me.accessToken, 1, TRUE))
             /\ refreshing' = [refreshing EXCEPT !.inv[w] = [me EXCEPT
                               !.pc = "next_athlete", !.athlete = NoCredential,
                               !.accessToken = NULL]]
          \/ /\ requests' = Append(requests, Request("athlete", me.accessToken, 1, FALSE))
             /\ refreshing' = [refreshing EXCEPT !.inv[w] = RefreshDone(w)]
             /\ UNCHANGED activities
    /\ UNCHANGED <<now, athletesTbl, issued>>
    /\ RefreshFrame

NextRefresh ==
    \/ \E w \in Invocations : RefreshSelect(w)
    \/ \E w \in Invocations : RefreshToken(w)
    \/ \E w \in Invocations : RefreshSave(w)
    \/ \E w \in Invocations : RefreshActivities(w)

SpecRefresh == InitRefresh /\ [][NextRefresh]_vars

\* ------------------------------------- the hash variants (part_003, part_001)

\* Activities hashed in one behaviour.
MaxHashed == 2

\* Character codes (charCodeAt) of the decimal digits of n.
RECURSIVE DigitCodes(_)
DigitCodes(n) ==
    IF n < 10 THEN <<48 + n>> ELSE Append(DigitCodes(n \div 10), 48 + (n % 10))

\* Character codes of (metres / 1000).toFixed(2); 46 is ".".
ToFixed2Codes(metres) ==
    LET c == (metres + 5) \div 10
    IN  DigitCodes(c \div 100) \o <<46, 48 + ((c % 100) \div 10), 48 + (c % 10)>>

\* The codes /\s/ matches among those of the model's names: tab, line feed,
\* vertical tab, form feed, carriage return, space, no-break space.
Whitespace == {9, 10, 11, 12, 13, 32, 160}

\* A club activity as the hash variants read it: first name (as character
\* codes), distance in metres, moving time, and the fields outside the hash.
HashAct(fName, distance, moving, lName, elev) ==
    [fName |-> fName, distance |-> distance, moving_time |-> moving,
     lName |-> lName, total_elevation_gain |-> elev]

\* (fName + dist.toFixed(2) + tempo).replace(/\s/g, '')
pseudoId(act) ==
    SelectSeq(act.fName \o ToFixed2Codes(act.distance) \o DigitCodes(act.moving_time),
              LAMBDA c : c \notin Whitespace)

\* hashId << 5
Shl5(h) ==
    LET l == h.lo * 32
    IN  Int32((h.hi * 32 + (l \div 65536)) % 65536, l % 65536)

\* a - b on 32 bits.
Sub32(a, b) ==
    LET l == a.lo - b.lo
        borrow == IF l < 0 THEN 1 ELSE 0
    IN  Int32((a.hi - b.hi - borrow + 65536) % 65536, (l + 65536) % 65536)

\* a + code on 32 bits.
Add32(a, code) ==
    LET l == a.lo + code
    IN  Int32((a.hi + (l \div 65536)) % 65536, l % 65536)

\* hashId = ((hashId << 5) - hashId) + pseudoId.charCodeAt(i); hashId |= 0;
\* the sum is exact in a double, so the bits "|= 0" keeps are those of the
\* 32-bit difference and sum.
HashChar(h, code) == Add32(Sub32(Shl5(h), h), code)

\* TRUE when the 32-bit pattern is a negative integer.
Negative(h) == h.hi >= 32768

\* Math.abs without the change of sign.
MathAbs_Identity(h) == h

\* Math.abs(hashId): a magnitude in 0..2^31, kept as halves (hi may be 32768).
MathAbs(h) ==
    IF ~Negative(h) THEN h
    ELSE Int32(65535 - h.hi + (IF h.lo = 0 THEN 1 ELSE 0), (65536 - h.lo) % 65536)

\* REPLACE INTO: the new row takes the place of the one with its activity_id.
InsertIgnore_Replace(rows, row) ==
    IF \E k \in DOMAIN rows : rows[k].activity_id = row.activity_id
    THEN [k \in DOMAIN rows |->
            IF rows[k].activity_id = row.activity_id THEN row ELSE rows[k]]
    ELSE Append(rows, row)

\* INSERT IGNORE INTO ... (activity_id, ...): a row whose activity_id is in
\* the table is dropped.
InsertIgnore(rows, row) ==
    IF \E k \in DOMAIN rows : rows[k].activity_id = row.activity_id
    THEN rows ELSE Append(rows, row)

\* result.affectedRows of the INSERT IGNORE: 1 for a row inserted, 0 for a
\* row dropped.
InsertIgnoreAffected(rows, row) ==
    IF \E k \in DOMAIN rows : rows[k].activity_id = row.activity_id THEN 0 ELSE 1

\* First names: "Ana", "Zoë", "Zo ë" and "Maximiliano".
HashNames == { <<65, 110, 97>>, <<90, 111, 235>>, <<90, 111, 32, 235>>,
               <<77, 97, 120, 105, 109, 105, 108, 105, 97, 110, 111>> }
HashDistances == {5000, 5004, 12349}
HashTimes == {1500, 3600}
HashActs ==
    {HashAct(n, d, t, l, 10 * l) : n \in HashNames, d \in HashDistances,
                                   t \in HashTimes, l \in {0, 1}}

\* The club feed of a hash variant: MaxHashed activities.
InitHash ==
    /\ variant \in {"part_003", "part_001"}
    /\ masterToken = "rtMaster"
    /\ envMissing = FALSE
    /\ athletesTbl = NoCredentials
    /\ feedKind = "edits"
    /\ dbFaulty = FALSE
    /\ now = T0
    /\ activities = <<>>
    /\ issued = 0
    /\ requests = <<>>
    /\ feed = <<>>
    /\ served = <<>>
    /\ pc = "hash_next"
    /\ route = "update"
    /\ conn = "open"
    /\ opened = 1
    /\ loc = InitLoc
    /\ resp = NoResp
    /\ last = NoLast
    /\ runs = 1
    /\ oauthRuns = [start |-> 0, callback |-> 0]
    /\ \E acts \in [1..MaxHashed -> HashActs] : hash = [NoHash EXCEPT !.acts = acts]
    /\ race = NoRace
    /\ refreshing = NoRefresh

\* The head of "for (const act of activities)" up to "let hashId = 0".
HashNext ==
    /\ pc = "hash_next"
    /\ hash.acts # <<>>
    /\ hash' = [hash EXCEPT !.act = Head(hash.acts), !.acts = Tail(@),
                            !.pseudoId = pseudoId(Head(hash.acts)), !.i = 0,
                            !.hashId = Int32(0, 0)]
    /\ pc' = "hash_loop"
    /\ UNCHANGED <<config, now, athletesTbl, activities, issued, requests, feed, served,
                   route, conn, opened, loc, resp, last, runs, oauthRuns, race, refreshing>>

\* One turn of "for (let i = 0; i < pseudoId.length; i++)".
HashLoop ==
    /\ pc = "hash_loop"
    /\ IF hash.i < Len(hash.pseudoId)
       THEN /\ hash' = [hash EXCEPT !.hashId = HashChar(@, hash.pseudoId[hash.i + 1]),
                                    !.i = @ + 1]
            /\ pc' = "hash_loop"
       ELSE /\ pc' = "hash_insert"
            /\ UNCHANGED <<hash, race, refreshing>>
    /\ UNCHANGED <<config, now, athletesTbl, activities, issued, requests, feed, served,
                   route, conn, opened, loc, resp, last, runs, oauthRuns, race, refreshing>>

\* const finalId = Math.abs(hashId), then the INSERT IGNORE of the row and
\* "if (result.affectedRows > 0) novos++".
HashInsert ==
    /\ pc = "hash_insert"
    /\ LET row == [activity_id |-> MathAbs(hash.hashId), hashId |-> hash.hashId,
                   act |-> hash.act]
       IN hash' = [hash EXCEPT
                     !.rows = InsertIgnore(@, row),
                     !.novos = IF InsertIgnoreAffected(hash.rows, row) > 0
                               THEN @ + 1 ELSE @]
    /\ pc' = "hash_next"
    /\ UNCHANGED <<config, now, athletesTbl, activities, issued, requests, feed, served,
                   route, conn, opened, loc, resp, last, runs, oauthRuns, race, refreshing>>

NextHash ==
    \/ HashNext
    \/ HashLoop
    \/ HashInsert

SpecHash == InitHash /\ [][NextHash]_vars

\* ----------------------------------------------------------- properties

LastRequest == requests[Len(requests)]

\* The step made one provider request.
Requested == Len(requests') = Len(requests) + 1
NewRequest == requests'[Len(requests')]

\* The stored credential is stale: the access token is missing, or the expiry
\* is missing, or the expiry is at most 60 s ahead of the instant t.
Stale(row, t) ==
    \/ row.access_token = NULL
    \/ row.expires_at = NullInt
    \/ row.expires_at <= t + 60

\* The access token of the latest token response issued to an athlete.
LatestIssued == "at" \o ToString(issued)

\* C1, at the token decision: a token request is made exactly when the
\* stored credential is stale; otherwise the stored token is taken.
C1_Decision ==
    (variant = "index" /\ pc = "next_athlete" /\ loc.athletes # <<>>) =>
        LET row == Head(loc.athletes)
        IN IF Stale(row, now')
           THEN /\ Requested
                /\ NewRequest.kind = "token"
                /\ NewRequest.auth = row.refresh_token
           ELSE /\ requests' = requests
                /\ pc' = "athlete_fetch"
                /\ loc'.accessToken = row.access_token

\* C1, at the feed request: it carries the refreshed token after a refresh
\* and the stored one otherwise.
C1_Use ==
    (variant = "index" /\ pc = "athlete_fetch" /\ Requested) =>
        /\ NewRequest.kind = "athlete"
        /\ IF Stale(loc.athlete, now)
           THEN /\ NewRequest.auth = LatestIssued
                /\ NewRequest.auth # loc.athlete.access_token
           ELSE NewRequest.auth = loc.athlete.access_token

\* C1: in index.js getValidAthleteAccessToken asks the provider for a refresh
\* if and only if the stored access token is missing or the stored expiry is
\* missing or <= now + 60 s; after a refresh the athlete-feed requests carry
\* the token the refresh returned, and without one no token request is made
\* and they carry the stored token.
C1_RefreshIffStale == [][C1_Decision /\ C1_Use]_vars

\* C1 witness: in a second invocation an athlete whose token was refreshed in
\* the first is served with the stored token, with no token request.
C1_Witness ==
    /\ variant = "index"
    /\ runs = 2
    /\ pc = "athlete_fetch"
    /\ issued > 0
    /\ requests = <<>>
    /\ loc.accessToken = loc.athlete.access_token

\* C2: after a successful refresh the credential table holds, under the
\* row's athlete id, the access token, refresh token and expiry of the
\* response, and the write is done before the token is used for a feed
\* request, also when the response has no athlete object.
C2_RefreshPersisted ==
    [][pc = "save_token" =>
          /\ pc' = "athlete_fetch"
          /\ loc'.accessToken = loc.refreshed.access_token
          /\ \E i \in DOMAIN athletesTbl' :
                /\ athletesTbl'[i].athlete_id = loc.athlete.athlete_id
                /\ athletesTbl'[i].access_token = loc.refreshed.access_token
                /\ athletesTbl'[i].refresh_token = loc.refreshed.refresh_token
                /\ athletesTbl'[i].expires_at = loc.refreshed.expires_at]_vars

\* A request made for one athlete of the credential table.
IsAthleteRequest(r) == r.kind = "athlete" \/ (r.kind = "token" /\ r.auth # masterToken)

\* C3: in index.js, when the token refresh or the feed request of one athlete
\* fails, every other authorized athlete is still served in the same
\* invocation: when it ends, each row of the credential table has had its
\* token asked for or its feed requested.
C3_OthersStillServed ==
    (variant = "index" /\ pc = "finally" /\ requests # <<>>
     /\ IsAthleteRequest(LastRequest) /\ ~LastRequest.ok) =>
        \A i \in DOMAIN athletesTbl :
            \E k \in DOMAIN requests :
                \/ requests[k].kind = "athlete"
                   /\ requests[k].auth = athletesTbl[i].access_token
                \/ requests[k].kind = "token"
                   /\ requests[k].auth = athletesTbl[i].refresh_token

MaxPagesOf(p) == IF p = "club_fetch" \/ p = "club_loop" THEN ClubMaxPages ELSE AthleteMaxPages

\* C4, while a fetch call runs: the pages answered so far are pages 1, 2, ...
\* in order, all of them full, fewer than maxPages, and the next page to ask
\* for is the one after them.
C4_Fetching ==
    pc \in {"club_fetch", "athlete_fetch"} =>
        /\ \A i \in DOMAIN served : served[i].page = i /\ Len(served[i].batch) = PerPage
        /\ Len(served) < MaxPagesOf(pc)
        /\ loc.page = Len(served) + 1
        /\ loc.all = Flatten(served)

\* C4, when a fetch call has returned: it asked for pages 1..n in order,
\* n <= maxPages, stopped at the first short page or at page maxPages, and
\* returned the pages concatenated in page order.
C4_Returned ==
    (pc \in {"club_loop", "athlete_loop"} /\ served # <<>>) =>
        LET n == Len(served)
        IN /\ \A i \in 1..n : served[i].page = i
           /\ \A i \in 1..(n - 1) : Len(served[i].batch) = PerPage
           /\ n <= MaxPagesOf(pc)
           /\ Len(served[n].batch) < PerPage \/ n = MaxPagesOf(pc)
           /\ loc.acts = Flatten(served)

\* C4: fetchClubActivities and fetchAthleteActivities ask for pages 1, 2, ...
\* in order, stop after the first page with fewer than perPage rows or after
\* page maxPages, make at most maxPages requests (so they end), and return
\* the concatenation, in page order, of exactly the pages they asked for.
C4_Pagination == C4_Fetching /\ C4_Returned

\* C4 witness: a fetch call that stopped because it reached page maxPages
\* with a full page.
C4_Witness ==
    /\ pc = "athlete_loop"
    /\ Len(served) = AthleteMaxPages
    /\ Len(served[Len(served)].batch) = PerPage

\* C5: in index.js a failed provider request is not retried: it is the last
\* request of the invocation, no row is written after it, and the invocation
\* answers 500 with { ok: false, error }.
C5_NoRetry ==
    [][variant = "index" =>
          /\ (Requested /\ ~NewRequest.ok) =>
                /\ pc' = "finally"
                /\ resp'.status = 500 /\ ~resp'.ok /\ resp'.error # NULL
                /\ activities' = activities
                /\ athletesTbl' = athletesTbl
          /\ (requests # <<>> /\ ~LastRequest.ok) =>
                /\ requests' = <<>>
                /\ pc' = "idle"
                /\ activities' = activities
                /\ athletesTbl' = athletesTbl]_vars

\* C5 witness: the second page of an athlete feed failed after rows of the
\* first athlete were written.
C5_Witness ==
    /\ variant = "index"
    /\ pc = "finally"
    /\ resp.status = 500
    /\ requests # <<>>
    /\ LastRequest.kind = "athlete" /\ LastRequest.page = 2 /\ ~LastRequest.ok
    /\ activities # <<>>

\* C6: the activities table holds at most one row per unique_key, and an
\* upsert whose key exists leaves the number of rows as it was.
C6_OneRowPerKey ==
    /\ [](\A i, j \in DOMAIN activities :
            activities[i].unique_key = activities[j].unique_key => i = j)
    /\ [][(/\ pc \in {"club_loop", "athlete_loop"}
           /\ last'.set
           /\ \E i \in DOMAIN activities :
                 activities[i].unique_key = last'.row.unique_key)
          => Len(activities') = Len(activities)]_vars

\* C6 witness: an upsert found its key in the table.
C6_Witness == last.set /\ last.existed /\ Len(activities) = 1

StoredRow(key) == activities[CHOOSE i \in KeyIndex(activities, key) : TRUE]

\* C7: after upsertActivity (index.js) is called with a key that exists, the
\* stored row has the call's activity_name, activity_date, activity_date_only,
\* distance_km, moving_time_seconds, elevation_meters, pace_display,
\* athlete_name, full_name and athlete_photo; the same call once more leaves
\* the table as it is.
C7_DisplayOverwritten ==
    (variant = "index" /\ last.set /\ last.existed) =>
        LET r == StoredRow(last.row.unique_key)
        IN /\ r.activity_name = last.row.activity_name
           /\ r.activity_date = last.row.activity_date
           /\ r.activity_date_only = last.row.activity_date_only
           /\ r.distance_km = last.row.distance_km
           /\ r.moving_time_seconds = last.row.moving_time_seconds
           /\ r.elevation_meters = last.row.elevation_meters
           /\ r.pace_display = last.row.pace_display
           /\ r.athlete_name = last.row.athlete_name
           /\ r.full_name = last.row.full_name
           /\ r.athlete_photo = last.row.athlete_photo
           /\ upsertActivity(activities, last.row) = activities

\* C7 witness: the call found a row with another name, distance and date.
C7_Witness ==
    /\ variant = "index"
    /\ last.set /\ last.existed
    /\ last.before.activity_name # last.row.activity_name
    /\ last.before.distance_km # last.row.distance_km
    /\ last.before.activity_date # last.row.activity_date

\* C8: in index.js the key of an activity with a real id is made of the feed
\* and the ids alone: the table never holds two rows of the same feed, the
\* same athlete (athlete feed) and the same activity id, whatever name,
\* distance, moving time or date the fetches showed, and a call for such an
\* activity has the key club|<id> or athlete|<athlete id>|<id>.
C8_IdKey ==
    variant = "index" =>
        /\ \A i, j \in DOMAIN activities :
              (/\ activities[i].activity_id # NULL
               /\ activities[i].activity_id = activities[j].activity_id
               /\ activities[i].source = activities[j].source
               /\ activities[i].source = "athlete"
                     => activities[i].athlete_id = activities[j].athlete_id)
              => i = j
        /\ (last.set /\ last.act.id # 0) =>
              last.row.unique_key =
                 IF last.row.source = "club"
                 THEN "club|" \o last.row.activity_id
                 ELSE "athlete|" \o last.row.athlete_id \o "|" \o last.row.activity_id

\* C8 witness: the same club activity fetched again with another name,
\* distance, time and date found its row.
C8_Witness ==
    /\ variant = "index"
    /\ last.set /\ last.existed
    /\ last.row.source = "club"
    /\ last.before.activity_name # last.row.activity_name
    /\ last.before.moving_time_seconds # last.row.moving_time_seconds

\* Two rows of the club snapshot that show the same activity.
SameSnapshotActivity(a, b) ==
    /\ a.source = "club_snapshot" /\ b.source = "club_snapshot"
    /\ a.activity_id = b.activity_id
    /\ a.athlete_id = b.athlete_id
    /\ a.activity_name = b.activity_name
    /\ a.activity_date = b.activity_date
    /\ a.distance_km = b.distance_km
    /\ a.moving_time_seconds = b.moving_time_seconds
    /\ a.elevation_meters = b.elevation_meters

\* C9: in part_000 two invocations that fetch the same unchanged club
\* activity, whenever they run, derive the same key and leave one row for it.
C9_StableWhenever ==
    variant = "part_000" =>
        \A i, j \in DOMAIN activities :
            SameSnapshotActivity(activities[i], activities[j]) => i = j

\* The collection day: the UTC date three hours before the instant.
CollectionDay(t) == DayStr((t - 10800) \div 86400)

\* C9 as amended: in part_000 the key of a club activity holds the collection
\* day of the invocation (the UTC date three hours before it starts), and the
\* table holds one row for the same unchanged activity per collection day.
C9_StablePerDay ==
    variant = "part_000" =>
        /\ \A i, j \in DOMAIN activities :
              (SameSnapshotActivity(activities[i], activities[j])
               /\ activities[i].snapshot_date = activities[j].snapshot_date) => i = j
        /\ (pc = "club_loop" /\ last.set) =>
              last.row.snapshot_date = CollectionDay(now)

\* C9 witness: a second invocation on the same collection day found the row
\* of the first.
C9_Witness ==
    /\ variant = "part_000"
    /\ runs = 2
    /\ pc = "club_loop"
    /\ last.set /\ last.existed
    /\ Len(activities) = 1

\* The start date of the activity, start_date_local else start_date, is a
\* date earlier than the cutoff.
StartsBeforeCutoff(act) ==
    LET d == IF act.start_date_local.kind # "none" THEN act.start_date_local
             ELSE act.start_date
    IN d.kind = "iso" /\ d.day * 86400 + d.sec < DATA_INICIO

\* C10: in index.js no activity whose start date (start_date_local, else
\* start_date) is earlier than DATA_INICIO is upserted, in the club pass and
\* in the athlete pass.
C10_CutoffExcluded ==
    (variant = "index" /\ last.set) => ~StartsBeforeCutoff(last.act)

\* C10 witness: the athlete pass went past an activity dated before the
\* cutoff, which it did not write, and wrote the one after it.
C10_Witness ==
    /\ variant = "index"
    /\ pc = "athlete_loop"
    /\ last.set
    /\ last.act.name = "Renamed Run"
    /\ \A i \in DOMAIN activities : activities[i].activity_name # "January Run"

\* C11: in index.js every row written by the athlete pass and every row
\* written by the club pass comes from an activity whose type is Run,
\* VirtualRun or TrailRun.
C11_OnlyRuns ==
    (variant = "index" /\ last.set) => last.act.type \in {"Run", "VirtualRun", "TrailRun"}

\* C11 as amended: every row written by the athlete pass comes from an
\* activity whose type is Run, VirtualRun or TrailRun, and every row written
\* by the club pass from an activity of one of those types or with no type.
C11_OnlyRunsOrUntyped ==
    (variant = "index" /\ last.set) =>
        \/ last.act.type \in {"Run", "VirtualRun", "TrailRun"}
        \/ last.row.source = "club" /\ last.act.type = ""

\* C11 witness: both passes went past a ride; the athlete pass wrote a
\* virtual run after skipping a ride and an activity with no type, and the
\* club pass had written its activity with no type.
C11_Witness ==
    /\ variant = "index"
    /\ feedKind = "types"
    /\ pc = "athlete_loop"
    /\ last.set /\ last.act.type = "VirtualRun"
    /\ \E i \in DOMAIN activities :
          activities[i].source = "club" /\ activities[i].activity_name = "Untitled"
    /\ \A i \in DOMAIN activities : activities[i].activity_name # "Lunch Ride"

\* M:SS is the pace of s seconds over m metres: M is the whole minutes of
\* 1000 s / m seconds, and SS the rest rounded to the nearest integer (a half
\* rounds up), written with two digits.
IsPaceOf(text, s, m) ==
    LET M == (1000 * s) \div (60 * m)
        rest == 1000 * s - 60 * M * m
    IN \E SS \in 0..60 :
          /\ 2 * m * SS - m <= 2 * rest
          /\ 2 * rest < 2 * m * SS + m
          /\ text = ToString(M) \o ":" \o (IF SS < 10 THEN "0" ELSE "") \o ToString(SS)

\* C12: calcularPace returns "0:00" when segundos is 0 or missing or km <= 0,
\* and otherwise M:SS with M = floor((segundos / km) / 60) and SS the
\* remaining seconds rounded to an integer and padded to two digits; 3600 s
\* over 10 km gives "6:00".
C12_Pace ==
    (variant = "index" /\ last.set) =>
        LET s == last.act.moving_time
            m == last.act.distance
        IN /\ (s = 0 \/ m <= 0) => last.row.pace_display = "0:00"
           /\ (s # 0 /\ m > 0) => IsPaceOf(last.row.pace_display, s, m)
           /\ (s = 3600 /\ m = 10000) => last.row.pace_display = "6:00"

\* C12 witness: a pace whose seconds are rounded up (3599 s over 10 km is
\* 359.9 s a kilometre).
C12_Witness ==
    /\ variant = "index"
    /\ last.set
    /\ last.act.moving_time = 3599 /\ last.act.distance = 10000
    /\ last.row.pace_display = "5:60"

\* C13: in index.js a failure while normalizing or upserting one activity is
\* skipped: from inside a batch loop the handler goes on with the rest of the
\* batch and the remaining athletes, never to the error response.
C13_RecordFailureSkipped ==
    [][(variant = "index" /\ pc \in {"club_loop", "athlete_loop"}) =>
          /\ pc' \in {"club_loop", "athlete_loop", "select_athletes", "next_athlete"}
          /\ resp'.status # 500]_vars


\* The steps of a handler that wait for the database.
DatabaseSteps == {"select_athletes", "club_loop", "athlete_loop", "save_token", "cb_connect"}

\* C14: every invocation of /oauth/start, /oauth/callback and /atualizar-clube
\* sends exactly one response: none while the handler still works, one when it
\* returns, and a handler never returns without having answered.  A missing
\* environment variable, a failed provider request and a failed database
\* operation are answered 500 with the message of the failure.
C14_OneResponse ==
    /\ [](pc = "finally" => resp.sent = 1 /\ resp.status \in {200, 302, 400, 500})
    /\ [](pc \notin {"idle", "finally"} => resp.sent = 0)
    /\ []((pc = "finally" /\ (envMissing \/ (requests # <<>> /\ ~LastRequest.ok)))
            => resp.status = 500 /\ resp.error # NULL)
    /\ [][(pc \in DatabaseSteps /\ pc' = "finally" /\ athletesTbl' = athletesTbl
            /\ activities' = activities /\ conn' = conn /\ ~Requested)
            => resp'.status = 500 /\ resp'.error # NULL]_vars
    /\ [][(pc # "finally") => pc' # "idle"]_vars

\* /oauth/callback failed after it connected, and has answered 500.
C14_Witness ==
    /\ route = "callback"
    /\ pc = "finally"
    /\ conn = "open"
    /\ resp.status = 500
    /\ resp.sent = 1
    /\ athletesTbl = OneAthlete

\* C15: an invocation of /oauth/callback or /atualizar-clube opens at most one
\* database connection; no connection is open once the handler has finished,
\* whether it answered a success or an error; and an invocation that fails
\* before it connects (missing ENV variable, missing code, failed exchange,
\* missing athlete id, failed connect) has opened none.
C15_OneConnection ==
    /\ [](opened <= 1)
    /\ [](conn = "open" => opened = 1)
    /\ [](pc = "idle" => conn # "open")
    /\ [][(pc = "finally" /\ conn = "open") => conn' = "closed"]_vars
    /\ [](envMissing => opened = 0)
    /\ [][(pc \in {"idle", "cb_exchange", "cb_connect"} /\ pc' = "finally")
            => (opened' = 0 /\ conn' = "none")]_vars

\* An invocation of /oauth/callback that stored a credential through its one
\* connection has finished, and the connection is closed.
C15_Witness ==
    /\ pc = "idle"
    /\ oauthRuns.callback = 1
    /\ runs = 0
    /\ opened = 1
    /\ conn = "closed"
    /\ Len(athletesTbl) = 2

\* The credential records of athlete id in a table.
RecordsOf(tbl, id) == {i \in DOMAIN tbl : tbl[i].athlete_id = id}

\* C17: /oauth/callback writes a credential only after a successful code
\* exchange that returned an athlete id.  Without a code it answers 400 and
\* calls neither the provider nor the database; an exchange result without
\* athlete.id is answered 500 and nothing is written or opened; on success the
\* record of that athlete id holds the access_token, refresh_token and
\* expires_at of the exchange.
C17_CallbackPersists ==
    /\ [][(pc = "idle" /\ route' = "callback" /\ ~envMissing) =>
            \/ pc' = "cb_exchange" /\ loc'.code # NULL
            \/ /\ resp'.status = 400
               /\ requests' = <<>>
               /\ opened' = 0
               /\ athletesTbl' = athletesTbl]_vars
    /\ [][(pc = "cb_exchange" /\ Requested /\ NewRequest.ok) =>
            \/ pc' = "cb_connect" /\ loc'.refreshed.athId # 0
            \/ /\ resp'.status = 500
               /\ opened' = 0
               /\ athletesTbl' = athletesTbl]_vars
    /\ [][(route = "callback" /\ athletesTbl' # athletesTbl) =>
            /\ requests # <<>>
            /\ LastRequest.kind = "exchange"
            /\ LastRequest.ok
            /\ loc.refreshed.athId # 0
            /\ resp'.status = 200
            /\ \A i \in RecordsOf(athletesTbl', loc.refreshed.athId) :
                  /\ athletesTbl'[i].access_token = LatestIssued
                  /\ athletesTbl'[i].access_token = loc.refreshed.access_token
                  /\ athletesTbl'[i].refresh_token = loc.refreshed.refresh_token
                  /\ athletesTbl'[i].expires_at = loc.refreshed.expires_at]_vars
    /\ [][(route = "callback" /\ pc = "cb_save" /\ resp'.status = 200) =>
            RecordsOf(athletesTbl', loc.refreshed.athId) # {}]_vars

\* A repeated authorization of athlete 1 has replaced the stored tokens.
C17_Witness ==
    /\ route = "callback"
    /\ pc = "finally"
    /\ resp.status = 200
    /\ Len(athletesTbl) = 1
    /\ athletesTbl[1].athlete_id = 1
    /\ athletesTbl[1].access_token = LatestIssued
    /\ athletesTbl[1].access_token # OneAthlete[1].access_token

\* The athlete ids that have a credential record.
AthleteIds(tbl) == {tbl[i].athlete_id : i \in DOMAIN tbl}

\* C19: the credential table holds at most one record per athlete id.  An
\* authorization or a refresh of an athlete that has a record overwrites it
\* and adds none, and only /oauth/callback creates the record of an athlete
\* that had none.
C19_OneCredentialPerAthlete ==
    /\ [](\A i, j \in DOMAIN athletesTbl :
            athletesTbl[i].athlete_id = athletesTbl[j].athlete_id => i = j)
    /\ [][(AthleteIds(athletesTbl') # AthleteIds(athletesTbl)
            \/ Len(athletesTbl') # Len(athletesTbl)) =>
            /\ route = "callback"
            /\ pc = "cb_save"
            /\ loc.refreshed.athId \notin AthleteIds(athletesTbl)
            /\ AthleteIds(athletesTbl') = AthleteIds(athletesTbl) \cup {loc.refreshed.athId}
            /\ Len(athletesTbl') = Len(athletesTbl) + 1]_vars
    /\ [][(pc = "save_token" /\ athletesTbl' # athletesTbl) =>
            /\ loc.athlete.athlete_id \in AthleteIds(athletesTbl)
            /\ \A i \in DOMAIN athletesTbl :
                  athletesTbl[i].athlete_id # loc.athlete.athlete_id
                  => athletesTbl'[i] = athletesTbl[i]]_vars

\* A callback created the record of a second athlete, and a later refresh
\* has overwritten one of the two records.
C19_Witness ==
    /\ route = "update"
    /\ pc = "athlete_fetch"
    /\ oauthRuns.callback >= 1
    /\ Len(athletesTbl) = 2
    /\ \E i \in DOMAIN athletesTbl : athletesTbl[i].access_token = LatestIssued
    /\ loc.accessToken = LatestIssued

\* The step sends the success summary of /atualizar-clube.
SendsSummary == pc = "next_athlete" /\ pc' = "finally" /\ resp'.status = 200

\* C18: in every success response of /atualizar-clube (index.js)
\* upserts_total = upserts_club + upserts_athletes, and upserts_club = 0 when
\* the club feed is disabled.  A counter of a pass grows by one at a time, each
\* time for one fetched activity of that pass that passed the type and date
\* filters, so each count is at most the number of such activities.
C18_Counts ==
    /\ []((variant = "index" /\ route = "update" /\ resp.status = 200) =>
            /\ resp.upserts_total = resp.upserts_club + resp.upserts_athletes
            /\ (masterToken = NULL => resp.upserts_club = 0 /\ ~resp.club_enabled))
    /\ [][(variant = "index" /\ SendsSummary) =>
            /\ resp'.upserts_club = loc.upsertsClub
            /\ resp'.upserts_athletes = loc.upsertsAthletes
            /\ resp'.upserts_club <= loc.keptClub
            /\ resp'.upserts_athletes <= loc.keptAthletes]_vars
    /\ [][(variant = "index" /\ loc'.upsertsClub # loc.upsertsClub /\ pc' # "finally"
            /\ pc # "idle") =>
            /\ pc = "club_loop"
            /\ loc.acts # <<>>
            /\ ~ClubSkips(Head(loc.acts))
            /\ loc'.acts = Tail(loc.acts)
            /\ loc'.upsertsClub = loc.upsertsClub + 1
            /\ loc'.keptClub = loc.keptClub + 1]_vars
    /\ [][(variant = "index" /\ loc'.upsertsAthletes # loc.upsertsAthletes
            /\ pc' # "finally" /\ pc # "idle") =>
            /\ pc = "athlete_loop"
            /\ loc.acts # <<>>
            /\ ~AthleteSkips(Head(loc.acts))
            /\ loc'.acts = Tail(loc.acts)
            /\ loc'.upsertsAthletes = loc.upsertsAthletes + 1
            /\ loc'.keptAthletes = loc.keptAthletes + 1]_vars

\* A success summary that counts upserts of both passes.
C18_Witness ==
    /\ variant = "index"
    /\ route = "update"
    /\ pc = "finally"
    /\ resp.status = 200
    /\ resp.upserts_club >= 1
    /\ resp.upserts_athletes >= 2
    /\ resp.upserts_total = resp.upserts_club + resp.upserts_athletes

\* h * 31 + code wrapped to 32 bits, computed on the halves.
Times31Plus(h, code) ==
    LET l == 31 * h.lo + code
    IN  Int32((31 * h.hi + (l \div 65536)) % 65536, l % 65536)

\* The three inputs of the pseudo id: first name without whitespace, the
\* distance to two decimals, the moving time.
HashInputs(act) ==
    <<SelectSeq(act.fName, LAMBDA c : c \notin Whitespace),
      ToFixed2Codes(act.distance), act.moving_time>>

\* C20: in the hash variants the pseudo id is a function of the first name,
\* the distance to two decimals and the moving time with whitespace removed;
\* every turn of the loop leaves h * 31 + charCode wrapped to 32 bits; the
\* absolute value stored as activity_id lies in 0..2^31; and two activities
\* equal in the three inputs receive the same id.
C20_Hash ==
    /\ [][(pc = "hash_loop" /\ pc' = "hash_loop") =>
            hash'.hashId = Times31Plus(hash.hashId, hash.pseudoId[hash.i + 1])]_vars
    /\ [][pc = "hash_insert" =>
            LET finalId == MathAbs(hash.hashId)
            IN /\ finalId.hi \in 0..32768
               /\ finalId.lo \in 0..65535
               /\ (finalId.hi = 32768 => finalId.lo = 0)
               /\ \A k \in DOMAIN hash.rows :
                     HashInputs(hash.rows[k].act) = HashInputs(hash.act)
                     => hash.rows[k].activity_id = finalId]_vars
    /\ [](\A k \in DOMAIN hash.rows :
            /\ hash.rows[k].activity_id.hi < 32768
               \/ hash.rows[k].activity_id = Int32(32768, 0)
            /\ \A j \in DOMAIN hash.rows : j # k =>
                  HashInputs(hash.rows[j].act) # HashInputs(hash.rows[k].act))

\* The second activity differs from the stored one in the spelling of the
\* first name, in the metres and outside the three inputs, hashes to the same
\* negative 32-bit value, and is about to get the stored id.
C20_Witness ==
    /\ pc = "hash_insert"
    /\ Len(hash.rows) = 1
    /\ hash.rows[1].act.fName # hash.act.fName
    /\ hash.rows[1].act.distance # hash.act.distance
    /\ hash.rows[1].act.lName # hash.act.lName
    /\ HashInputs(hash.rows[1].act) = HashInputs(hash.act)
    /\ Negative(hash.hashId)
    /\ hash.rows[1].activity_id = MathAbs(hash.hashId)

\* The rows of a table.
RowsOf(tbl) == {tbl[k] : k \in DOMAIN tbl}

\* Both invocations have left their loops.
RaceOver == \A w \in Invocations : race.loops[w].pass = "done"

CappedRun(act) ==
    /\ act.type \in RunTypes
    /\ act.start_date_local.kind = "none"
    /\ act.start_date.kind = "none"
    /\ act.id = 0

\* C21: in the club-snapshot version (part_000) a running club-feed activity
\* without a start date and without an id is still upserted, as a row with
\* source club_snapshot, NULL activity_date and activity_date_only, and
\* snapshot_date and collected_at filled; every club_snapshot row of the table
\* has snapshot_date and collected_at filled.
C21_CappedStored ==
    /\ [](\A k \in DOMAIN activities :
            activities[k].source = "club_snapshot" =>
               /\ activities[k].snapshot_date # NULL
               /\ activities[k].collected_at # NULL)
    /\ [][(variant = "part_000" /\ pc = "club_loop" /\ loc.acts # <<>>
            /\ CappedRun(Head(loc.acts))) =>
            \E k \in DOMAIN activities' :
               /\ activities'[k].unique_key = last'.row.unique_key
               /\ last'.set
               /\ last'.act = Head(loc.acts)
               /\ activities'[k].source = "club_snapshot"
               /\ activities'[k].activity_date = NULL
               /\ activities'[k].activity_date_only = NULL
               /\ activities'[k].snapshot_date = loc.snapshotDate
               /\ activities'[k].snapshot_date # NULL
               /\ activities'[k].collected_at # NULL]_vars

\* The snapshot pass has just written the capped run of the feed.
C21_Witness ==
    /\ variant = "part_000"
    /\ pc = "club_loop"
    /\ last.set
    /\ CappedRun(last.act)
    /\ \E k \in DOMAIN activities :
          /\ activities[k].unique_key = last.row.unique_key
          /\ activities[k].source = "club_snapshot"
          /\ activities[k].activity_date = NULL
          /\ activities[k].snapshot_date = "2026-02-01"

\* The steps of the club pass and of the athlete pass.
ClubSteps == {"club_token", "club_fetch", "club_loop"}
AthleteSteps == {"select_athletes", "next_athlete", "save_token", "athlete_fetch",
                 "athlete_loop"}

\* The request belongs to the club pass.
IsClubRequest(r) == r.kind = "club" \/ (r.kind = "token" /\ r.auth = masterToken)

\* C22: in /atualizar-clube (index.js) without STRAVA_REFRESH_TOKEN_MASTER no
\* token request and no club-feed request are made for the club, no row with
\* source club is written, the athlete pass takes every authorized athlete in
\* turn, and the summary reports club_enabled false.  With the token the club
\* pass is over before the first athlete is processed: no step and no request
\* of the club pass follows one of the athlete pass.
C22_ClubOptional ==
    /\ []((variant = "index" /\ masterToken = NULL) =>
            /\ pc \notin ClubSteps
            /\ \A i \in DOMAIN requests : ~IsClubRequest(requests[i])
            /\ \A k \in DOMAIN activities : activities[k].source # "club"
            /\ (resp.status = 200 => ~resp.club_enabled))
    /\ [][(variant = "index" /\ masterToken = NULL /\ pc = "idle" /\ pc' # "finally")
            => pc' = "select_athletes"]_vars
    /\ [][(variant = "index" /\ SendsSummary) =>
            /\ loc.athletes = <<>>
            /\ loc.nAthletes = Len(athletesTbl)
            /\ resp'.athletes_authorized = Len(athletesTbl)
            /\ resp'.club_enabled = (masterToken # NULL)]_vars
    /\ [][(variant = "index" /\ pc = "select_athletes" /\ pc' = "next_athlete")
            => loc'.athletes = athletesTbl]_vars
    /\ [][(variant = "index" /\ pc = "next_athlete" /\ loc.athletes # <<>>
            /\ pc' # "finally") =>
            /\ loc'.athlete = Head(loc.athletes)
            /\ loc'.athletes = Tail(loc.athletes)
            /\ pc' \in {"save_token", "athlete_fetch"}]_vars
    /\ [][(variant = "index" /\ pc \in AthleteSteps)
            => pc' \in AthleteSteps \cup {"finally"}]_vars
    /\ []((variant = "index" /\ masterToken # NULL) =>
            /\ \A i, j \in DOMAIN requests :
                  (i < j /\ ~IsClubRequest(requests[i])) => ~IsClubRequest(requests[j])
            /\ (pc \in ClubSteps /\ last.set => last.row.source = "club")
            /\ (pc \in ClubSteps => \A i \in DOMAIN requests : IsClubRequest(requests[i])))

\* Without the master token the athlete pass has served both authorized
\* athletes and the summary is sent.
C22_Witness ==
    /\ variant = "index"
    /\ masterToken = NULL
    /\ pc = "finally"
    /\ resp.status = 200
    /\ ~resp.club_enabled
    /\ resp.athletes_authorized = 2
    /\ resp.upserts_athletes >= 2
    /\ \E i \in DOMAIN requests : requests[i].kind = "athlete"

\* C23: with a required configuration variable missing, /oauth/start,
\* /oauth/callback and /atualizar-clube fail before any side effect: no
\* database connection is opened, no provider request is made, the credential
\* and activity tables stay as they were, and the answer is 500.
C23_EnvFailsFirst ==
    /\ [](envMissing =>
            /\ opened = 0
            /\ conn = "none"
            /\ requests = <<>>
            /\ issued = 0
            /\ activities = <<>>
            /\ pc \in {"idle", "finally"}
            /\ (pc = "finally" => resp.status = 500 /\ resp.error # NULL))
    /\ [][envMissing => (athletesTbl' = athletesTbl /\ activities' = activities)]_vars

\* All three routes have been invoked without the configuration, the last
\* one has answered 500, and the stored credential is as it was.
C23_Witness ==
    /\ envMissing
    /\ pc = "finally"
    /\ resp.status = 500
    /\ runs >= 1
    /\ oauthRuns.start >= 1
    /\ oauthRuns.callback >= 1
    /\ athletesTbl = OneAthlete

\* C24: in the INSERT IGNORE versions (part_001, part_003) storing an activity
\* whose activity_id is in the table changes nothing: the row keeps all its
\* values, the number of rows stays, and the count of new activities does not
\* move; an activity with a new id adds one row and one to the count, so the
\* count is the number of rows inserted.
C24_InsertIgnore ==
    /\ [][pc = "hash_insert" =>
            LET finalId == MathAbs(hash.hashId)
            IN IF \E k \in DOMAIN hash.rows : hash.rows[k].activity_id = finalId
               THEN /\ hash'.rows = hash.rows
                    /\ hash'.novos = hash.novos
               ELSE /\ Len(hash'.rows) = Len(hash.rows) + 1
                    /\ SubSeq(hash'.rows, 1, Len(hash.rows)) = hash.rows
                    /\ hash'.rows[Len(hash'.rows)].activity_id = finalId
                    /\ hash'.rows[Len(hash'.rows)].act = hash.act
                    /\ hash'.novos = hash.novos + 1]_vars
    /\ [](hash.novos = Len(hash.rows))

\* The second activity had the id of the first and other values: the table
\* still holds the first alone, and one new activity is counted.
C24_Witness ==
    /\ pc = "hash_next"
    /\ hash.acts = <<>>
    /\ Len(hash.rows) = 1
    /\ hash.novos = 1
    /\ hash.act # hash.rows[1].act
    /\ hash.rows[1].activity_id = MathAbs(hash.hashId)

\* The two-digit strings 00..59.
SecondsStrings == {Pad2(n) : n \in 0..59}

\* C25: for segundos > 0 and km > 0 the seconds part of the string calcularPace
\* (index.js) returns, the two characters after the colon, is between 00
\* and 59.
C25_SecondsBelow60 ==
    (variant = "index" /\ last.set /\ last.act.moving_time > 0 /\ last.act.distance > 0)
        => LET text == last.row.pace_display
           IN /\ Len(text) >= 4
              /\ SubSeq(text, Len(text) - 2, Len(text) - 2) = ":"
              /\ SubSeq(text, Len(text) - 1, Len(text)) \in SecondsStrings

\* C26: upsertActivity (index.js) called with a unique_key that exists leaves
\* that row's unique_key, activity_id, athlete_id and source as they were, and
\* every call leaves every row with another unique_key as it was.
C26_KeyColumnsKept ==
    [][pc = "upsert" =>
         /\ last'.set
         /\ \A i \in DOMAIN activities :
               IF activities[i].unique_key = last'.row.unique_key
               THEN /\ activities'[i].unique_key = activities[i].unique_key
                    /\ activities'[i].activity_id = activities[i].activity_id
                    /\ activities'[i].athlete_id = activities[i].athlete_id
                    /\ activities'[i].source = activities[i].source
               ELSE activities'[i] = activities[i]]_vars

\* A call whose key was stored brought another activity_id, athlete_id and
\* source; the stored row kept its own beside a row with the other key.
C26_Witness ==
    /\ pc = "upsert"
    /\ last.set
    /\ last.existed
    /\ Len(activities) = 2
    /\ last.row.activity_id # last.before.activity_id
    /\ last.row.athlete_id # last.before.athlete_id
    /\ last.row.source # last.before.source
    /\ last.row.activity_name # last.before.activity_name
    /\ StoredRow(last.row.unique_key).athlete_id = last.before.athlete_id
    /\ StoredRow(last.row.unique_key).source = last.before.source
    /\ StoredRow(last.row.unique_key).activity_name = last.row.activity_name

\* The string begins with the prefix.
StartsWith(str, prefix) ==
    Len(str) >= Len(prefix) /\ SubSeq(str, 1, Len(prefix)) = prefix

\* C27: in index.js every stored row's source matches the prefix of its key,
\* club with "club|" and athlete with "athlete|", so a step of the club pass
\* never changes a row of the athlete pass and a step of the athlete pass never
\* changes a row of the club pass.
C27_SourceMatchesKey ==
    /\ [](variant = "index" =>
            \A i \in DOMAIN activities :
              /\ activities[i].source \in {"club", "athlete"}
              /\ activities[i].source = "club"
                   <=> StartsWith(activities[i].unique_key, "club|")
              /\ activities[i].source = "athlete"
                   <=> StartsWith(activities[i].unique_key, "athlete|"))
    /\ [][variant = "index" =>
            \A i \in DOMAIN activities :
              /\ pc \in ClubSteps /\ activities[i].source = "athlete"
                   => activities'[i] = activities[i]
              /\ pc \in AthleteSteps /\ activities[i].source = "club"
                   => activities'[i] = activities[i]]_vars

\* The same activity id is stored twice, once by each pass of index.js.
C27_Witness ==
    /\ variant = "index"
    /\ \E i, j \in DOMAIN activities :
          /\ activities[i].source = "club"
          /\ activities[j].source = "athlete"
          /\ activities[i].activity_id # NULL
          /\ activities[i].activity_id = activities[j].activity_id

\* The tokens of the credential table before any refresh.
SeedTokens == {NULL, "atA", "atB"}

\* C28: when /atualizar-clube (index.js) aborts partway, the step that answers
\* 500 and the release of the connection after it leave the activity table and
\* the credential table as they were, so every row and every refreshed
\* credential written before the failure stays; the 500 response is
\* { ok: false, error } and carries no upsert count.
C28_AbortKeepsWrites ==
    [][variant = "index" /\ route = "update" =>
         /\ pc # "finally" /\ pc' = "finally" /\ resp'.status = 500 =>
               /\ activities' = activities
               /\ athletesTbl' = athletesTbl
               /\ resp'.ok = FALSE
               /\ resp'.error # NULL
               /\ resp'.upserts_total = 0
               /\ resp'.upserts_club = 0
               /\ resp'.upserts_athletes = 0
         /\ pc = "finally" =>
               /\ activities' = activities
               /\ athletesTbl' = athletesTbl]_vars

\* The first invocation answered 500 for a failed request after it had stored
\* a row of each pass and a refreshed credential.
C28_Witness ==
    /\ variant = "index"
    /\ route = "update"
    /\ runs = 1
    /\ pc = "finally"
    /\ resp.status = 500
    /\ requests # <<>>
    /\ ~LastRequest.ok
    /\ \E i \in DOMAIN activities : activities[i].source = "club"
    /\ \E i \in DOMAIN activities : activities[i].source = "athlete"
    /\ \E i \in DOMAIN athletesTbl : athletesTbl[i].access_token \notin SeedTokens

\* The grants the provider issued for the athlete, by their number.
GrantsFor(id) == {n \in DOMAIN refreshing.grants : refreshing.grants[n].athlete_id = id}

\* Both invocations were granted a refresh for the athlete.
BothRefreshed(id) == {refreshing.grants[n].w : n \in GrantsFor(id)} = Invocations

LastGrant(id) == CHOOSE n \in GrantsFor(id) : \A m \in GrantsFor(id) : m <= n

\* C29: when two overlapping invocations of /atualizar-clube both refresh the
\* token of the same athlete, the record stored when both have ended holds the
\* access token and the refresh token of the response the provider issued last.
C29_LastIssuedStored ==
    (\A w \in Invocations : refreshing.inv[w].pc = "done") =>
        \A i \in DOMAIN athletesTbl :
            BothRefreshed(athletesTbl[i].athlete_id) =>
                /\ athletesTbl[i].access_token
                     = "at" \o ToString(LastGrant(athletesTbl[i].athlete_id))
                /\ athletesTbl[i].refresh_token
                     = "rt" \o ToString(LastGrant(athletesTbl[i].athlete_id))

\* The step hands the activity to upsertActivity and its row is in the table.
StoredBy(act) ==
    /\ last'.set
    /\ last'.act = act
    /\ \E k \in DOMAIN activities' : activities'[k].unique_key = last'.row.unique_key

\* C30: in /atualizar-clube (index.js) a run with a date is dropped by the
\* cutoff exactly when the date parses to a finite time strictly earlier than
\* DATA_INICIO: the run dated at the cutoff is stored, the run whose date does
\* not parse is stored, and a run with no date is stored by neither pass.
C30_CutoffStrict ==
    /\ [](variant = "index" =>
            \A k \in DOMAIN activities : activities[k].activity_date # NULL)
    /\ [][(variant = "index" /\ pc \in {"club_loop", "athlete_loop"}
            /\ loc.acts # <<>> /\ Head(loc.acts).type = "Run") =>
            LET act == Head(loc.acts)
                d == DataRaw(act)
            IN /\ d.kind = "none" => activities' = activities /\ ~last'.set
               /\ d.kind # "none" =>
                     /\ (d.kind = "iso" /\ DateSeconds(d) < DATA_INICIO)
                          <=> (activities' = activities /\ ~last'.set)
                     /\ ~(d.kind = "iso" /\ DateSeconds(d) < DATA_INICIO)
                          <=> StoredBy(act)
               /\ d = AtCutoff => StoredBy(act)
               /\ d = BadDate => StoredBy(act)]_vars

\* Both passes are over: the runs dated at the cutoff and the runs with the
\* odd date are stored, the undated runs and the runs of late January are not.
C30_Witness ==
    /\ variant = "index"
    /\ pc = "finally"
    /\ resp.status = 200
    /\ {activities[k].unique_key : k \in DOMAIN activities}
         = {"club|51", "club|52", "athlete|1|51", "athlete|1|62"}
    /\ \E k \in DOMAIN activities :
          /\ activities[k].unique_key = "club|51"
          /\ activities[k].activity_date = toMySQLDatetime(AtCutoff)
    /\ \E k \in DOMAIN activities :
          /\ activities[k].unique_key = "athlete|1|62"
          /\ activities[k].activity_date = toMySQLDatetime(BadDate)
====
